---- MODULE Spec2Model ----
(***************************************************************************)
(* A model of the core of pipy: the TCP Listener's admission control       *)
(* (src/listener.cpp), the Replay filter (src/filters/replay.cpp), the     *)
(* QueueMuxer and the session pool of the mux filters                      *)
(* (src/filters/mux.cpp), the pipelines of a PipelineDef (src/pipeline.cpp) *)
(* and the FilterConfigurator (src/api/configuration.cpp).                 *)
(* Every component is one record-valued variable                           *)
(* whose fields carry the names of the C++ members, every method is an     *)
(* operator from the object's state to its state after the call, and every *)
(* action is one callback of the single-threaded event loop.               *)
(***************************************************************************)
EXTENDS Integers, Sequences, FiniteSets, TLC

VARIABLES
  listener,   \* the Listener object (listener.cpp)
  l_op,       \* the last Listener callback that ran
  replay,     \* the Replay filter, its sub-pipeline and its output (replay.cpp)
  r_op,       \* the last Replay callback that ran
  r_processed, \* the events process() was called with since the last reset
  r_emitted,  \* the events the sub-pipelines have emitted since the last reset
  muxer,      \* a QueueMuxer session, its Streams and MuxQueue filters (mux.cpp)
  q_read,     \* how many events of its input the session has consumed
  q_echoed,   \* the positions of the session's input the session has echoed
  q_ended,    \* the Streams in the order their upstream message end arrived
  q_op,       \* the last QueueMuxer callback that ran
  q_calls,    \* how far each filter is in its messages, and the calls counted
  q_last,     \* the Stream and the event of the last QueueMuxer callback
  pool,       \* a SessionPool, its clusters and sessions, the mux filters
  p_gone,     \* the key objects that have become unreachable
  p_op,       \* "tick" when the last SessionPool callback was the recycle timer
  pipeline_def, \* a PipelineDef and the Pipeline objects it has made (pipeline.cpp)
  y_op,       \* the last PipelineDef or Pipeline call that ran
  config,     \* a Configuration and its FilterConfigurators (configuration.cpp)
  c_op,       \* the last configuration method the script called
  stats,      \* a Metric, its tree of sub-metrics and the text made (stats.cpp)
  s_op,       \* the last Metric call that ran
  file_buffer, \* a Buffer filter and its file (filters/buffer.cpp)
  b_op        \* the last Buffer call that ran

lvars == <<listener, l_op>>
rvars == <<replay, r_op, r_processed, r_emitted>>
qvars == <<muxer, q_read, q_echoed, q_ended, q_op, q_calls, q_last>>
pvars == <<pool, p_gone, p_op>>
yvars == <<pipeline_def, y_op>>
cvars == <<config, c_op>>
svars == <<stats, s_op>>
bvars == <<file_buffer, b_op>>

vars == <<lvars, rvars, qvars, pvars, yvars, cvars, svars, bvars>>

(***************************************************************************)
(* Bounds.                                                                 *)
(***************************************************************************)
MaxInbounds == 3   \* connections the peers open at most at the same time
MaxConn == 2       \* largest maxConnections option that is tried
MaxReplayEvents == 3   \* events fed to a Replay filter over its life
MaxSubPipelines == 3   \* sub-pipelines a Replay filter creates over its life
MaxReplayOutput == 3   \* events the sub-pipelines of a Replay filter emit
NStreams == 2      \* MuxQueue filters (one Stream each) sharing the session
MaxData == 1       \* Data events in one upstream message
NMuxers == 2       \* mux filters that share the SessionPool
MaxSessions == 2   \* Session objects alive at the same time
MaxTime == 2       \* seconds the clock runs
MaxMessageCount == 2   \* streams a session serves where maxMessages is 0
NKeys == 1         \* session keys the selectors of the mux filters return
MaxMuxEvents == 2  \* events a mux filter is given between two resets
MaxPipelines == 3   \* Pipeline objects a PipelineDef constructs
NContexts == 1     \* contexts that pipelines are allocated for
MaxLayouts == 3    \* pipeline layouts a configuration script declares
MaxFilters == 3    \* filters a configuration script appends
MaxExports == 2    \* variables a configuration script exports
MaxImports == 2    \* variables a configuration script imports
NLabelNames == 1   \* label names a metric is made with at most
NBuckets == 2      \* bucket boundaries of a histogram
MaxCount == 1      \* largest value a counter or a bucket count reaches
MaxUpMessages == 3 \* messages the mux filters of a session are given in all
MaxReplies == 4    \* events the session of a QueueMuxer sends as replies
MaxIncrease == 1   \* calls of increase_queue_count()
NFilterTemplates == 2   \* filters of a pipeline layout
BufferThreshold == 2     \* the threshold option of the Buffer filter
MaxChunk == 3            \* bytes of one Data event given to the Buffer filter
MaxFileBytes == 8        \* bytes written to the file of the Buffer filter
MaxResets == 1     \* resets of the mux filters of a session

(***************************************************************************)
(* Listener (listener.cpp).                                                *)
(*   m_pipeline_layout  the bound layout, NoLayout for nullptr             *)
(*   max_connections    m_options.max_connections                          *)
(*   m_inbounds         the size of the list of live inbounds              *)
(*   m_paused           the paused flag                                    *)
(*   acceptor_open      m_acceptor is open                                 *)
(*   accepting          async_accept operations outstanding on m_acceptor  *)
(***************************************************************************)
NoLayout == 0
Layouts == {1, 2}
MaxConnValues == (0 - 1) .. MaxConn

\* Listener::accept: a new InboundTCP starts an async_accept; on a closed
\* acceptor the operation fails at once and nothing stays outstanding.
Listener_accept(L) ==
  IF L.acceptor_open THEN [L EXCEPT !.accepting = @ + 1] ELSE L

\* Listener::pause: m_acceptor.cancel() aborts every outstanding accept.
Listener_pause(L) ==
  IF ~L.m_paused
    THEN [L EXCEPT !.accepting = 0, !.m_paused = TRUE]
    ELSE L

\* Listener::resume
Listener_resume(L) ==
  IF L.m_paused
    THEN [Listener_accept(L) EXCEPT !.m_paused = FALSE]
    ELSE L

\* The ways Listener::start can go: every call succeeds, m_acceptor.open
\* throws, or m_acceptor.bind or listen throws on the opened acceptor.
StartOutcomes == {"ok", "open throws", "bind throws"}

\* Listener::start: open, bind, listen, and accept when below the limit.
\* The result is the listener and whether a runtime_error was thrown.
Listener_start(L, outcome) ==
  LET L1 == [L EXCEPT !.acceptor_open = TRUE]
  IN  CASE outcome = "open throws" -> [listener |-> L, thrown |-> TRUE]
        [] outcome = "bind throws" -> [listener |-> L1, thrown |-> TRUE]
        [] OTHER ->
             [listener |->
                IF L1.max_connections < 0
                     \/ L1.m_inbounds < L1.max_connections
                  THEN Listener_accept(L1)
                  ELSE L1,
              thrown |-> FALSE]

\* Listener::close(): m_acceptor.close() aborts every outstanding accept.
Listener_close(L) ==
  [L EXCEPT !.acceptor_open = FALSE, !.accepting = 0]

\* A faulty pipeline_layout: the error of start() is passed on, and the
\* acceptor is left as start() left it.
Listener_pipeline_layout_no_close(L, layout, outcome) ==
  IF L.m_pipeline_layout # layout
    THEN IF layout # NoLayout
           THEN IF L.m_pipeline_layout = NoLayout
                  THEN LET R == Listener_start(L, outcome)
                       IN  IF R.thrown
                             THEN R
                             ELSE [R EXCEPT
                                     !.listener.m_pipeline_layout = layout]
                  ELSE [listener |-> [L EXCEPT !.m_pipeline_layout = layout],
                        thrown |-> FALSE]
           ELSE [listener |->
                   [Listener_close(L) EXCEPT !.m_pipeline_layout = layout],
                 thrown |-> FALSE]
    ELSE [listener |-> L, thrown |-> FALSE]

\* Listener::pipeline_layout(layout): the result is the listener and
\* whether the runtime_error of start() was thrown on.
Listener_pipeline_layout(L, layout, outcome) ==
  IF L.m_pipeline_layout # layout
    THEN IF layout # NoLayout
           THEN IF L.m_pipeline_layout = NoLayout
                  THEN LET R == Listener_start(L, outcome)
                       IN  IF R.thrown
                             THEN [listener |->
                                     [R.listener EXCEPT
                                        !.acceptor_open = FALSE,
                                        !.accepting = 0],
                                   thrown |-> TRUE]
                             ELSE [R EXCEPT
                                     !.listener.m_pipeline_layout = layout]
                  ELSE [listener |-> [L EXCEPT !.m_pipeline_layout = layout],
                        thrown |-> FALSE]
           ELSE [listener |->
                   [Listener_close(L) EXCEPT !.m_pipeline_layout = layout],
                 thrown |-> FALSE]
    ELSE [listener |-> L, thrown |-> FALSE]

\* Listener::set_options(options)
Listener_set_options(L, n) ==
  LET L1 == [L EXCEPT !.max_connections = n]
  IN  IF L1.m_pipeline_layout # NoLayout
        THEN IF n >= 0 /\ L1.m_inbounds >= n
               THEN Listener_pause(L1)
               ELSE Listener_resume(L1)
        ELSE L1

\* Listener::open(inbound): called when an accept has completed.
Listener_open(L) ==
  LET L1 == [L EXCEPT !.m_inbounds = @ + 1]
      n == L1.max_connections
  IN  IF n > 0 /\ L1.m_inbounds >= n
        THEN Listener_pause(L1)
        ELSE Listener_accept(L1)

\* Listener::close(inbound): called when an inbound goes away.
Listener_close_inbound(L) ==
  LET L1 == [L EXCEPT !.m_inbounds = @ - 1]
      n == L1.max_connections
  IN  IF n < 0 \/ L1.m_inbounds < n
        THEN Listener_resume(L1)
        ELSE L1

\* A Listener right after its constructor and the first set_options, which
\* only stores the options while no layout is bound.
Listener_new(n) ==
  [m_pipeline_layout |-> NoLayout, max_connections |-> n,
   m_inbounds |-> 0, m_paused |-> FALSE,
   acceptor_open |-> FALSE, accepting |-> 0]

\* The configuration calls set_options.
SetOptions ==
  /\ \E n \in MaxConnValues : listener' = Listener_set_options(listener, n)
  /\ l_op' = "set_options"
  /\ UNCHANGED <<rvars, qvars, pvars, yvars, cvars, svars, bvars>>

\* The worker binds a layout to the listener or unbinds it.
BindLayout ==
  /\ \E layout \in Layouts \cup {NoLayout}, outcome \in StartOutcomes :
       LET R == Listener_pipeline_layout(listener, layout, outcome)
       IN  /\ layout # listener.m_pipeline_layout
           /\ listener' = R.listener
           /\ l_op' = IF R.thrown THEN "pipeline_layout throws"
                                  ELSE "pipeline_layout"
  /\ UNCHANGED <<rvars, qvars, pvars, yvars, cvars, svars, bvars>>

\* An outstanding accept completes: the accepted inbound calls open().
AcceptCompletes ==
  /\ listener.accepting > 0
  /\ listener.m_inbounds < MaxInbounds
  /\ listener' = Listener_open([listener EXCEPT !.accepting = @ - 1])
  /\ l_op' = "open"
  /\ UNCHANGED <<rvars, qvars, pvars, yvars, cvars, svars, bvars>>

\* A live inbound closes and calls close(inbound).
InboundCloses ==
  /\ listener.m_inbounds > 0
  /\ listener' = Listener_close_inbound(listener)
  /\ l_op' = "close"
  /\ UNCHANGED <<rvars, qvars, pvars, yvars, cvars, svars, bvars>>

ListenerNext ==
  \/ SetOptions
  \/ BindLayout
  \/ AcceptCompletes
  \/ InboundCloses

(***************************************************************************)
(* Replay (filters/replay.cpp).                                            *)
(*   m_buffer            the captured events, in order                     *)
(*   m_pipeline          the current sub-pipeline, NoPipeline for nullptr  *)
(*   m_replay_scheduled  a replay is scheduled on m_timer                  *)
(*   sub_input           the events m_pipeline has received on its input   *)
(*   released            the sub-pipelines that have been released         *)
(*   made                the number of sub_pipeline() calls so far         *)
(*   output              the events emitted on the filter's own output     *)
(* An event is [kind, error, body, copy]: body is the content that         *)
(* Event::clone() shares, and copy tells the objects with the same content *)
(* apart: 0 is the event process() was given, p is the clone made for      *)
(* sub-pipeline p.                                                         *)
(***************************************************************************)
NoPipeline == 0
NoError == "NO_ERROR"
ReplayError == "REPLAY"
OtherError == "CONNECTION_RESET"
ReplayInputs ==
  [kind : {"MessageStart", "Data"}, error : {NoError}]
    \cup [kind : {"StreamEnd"}, error : {NoError}]
SubOutputs ==
  [kind : {"Data"}, error : {NoError}]
    \cup [kind : {"StreamEnd"}, error : {NoError, ReplayError, OtherError}]

\* A faulty clone(): the recorded event itself.
Event_clone_shared(evt, p) == evt

\* Event::clone() as replay() uses it: a new object with the same content.
Event_clone(evt, p) == [evt EXCEPT !.copy = p]

\* Filter::sub_pipeline(0, false, ReplayReceiver::input())
Replay_sub_pipeline(R) ==
  [R EXCEPT !.made = @ + 1, !.m_pipeline = R.made + 1, !.sub_input = <<>>]

\* Replay::process(evt)
Replay_process(R, evt) ==
  LET R1 == IF R.m_pipeline = NoPipeline THEN Replay_sub_pipeline(R) ELSE R
  IN  [R1 EXCEPT !.m_buffer = Append(@, evt),
                 !.sub_input = Append(@, evt)]

\* Replay::schedule_replay()
Replay_schedule_replay(R) ==
  IF ~R.m_replay_scheduled
    THEN [R EXCEPT !.m_replay_scheduled = TRUE, !.timer = @ + 1]
    ELSE R

\* Replay::replay(): release the old sub-pipeline, make a new one and feed
\* it a clone of every captured event.
Replay_replay(R) ==
  LET R1 == [R EXCEPT !.released = @ \cup ({R.m_pipeline} \ {NoPipeline})]
      R2 == Replay_sub_pipeline(R1)
  IN  [R2 EXCEPT !.sub_input =
         [i \in 1 .. Len(R2.m_buffer) |->
            Event_clone(R2.m_buffer[i], R2.m_pipeline)]]

\* The callback schedule_replay() puts on m_timer.
Replay_on_timer(R) ==
  Replay_replay([R EXCEPT !.m_replay_scheduled = FALSE, !.timer = @ - 1])

\* A faulty on_event: the StreamEnd that asks for a replay is also emitted.
ReplayReceiver_on_event_surface(R, evt) ==
  LET R1 == IF evt.kind = "StreamEnd" /\ evt.error = ReplayError
              THEN Replay_schedule_replay(R)
              ELSE R
  IN  [R1 EXCEPT !.output = Append(@, evt)]

\* ReplayReceiver::on_event(evt)
ReplayReceiver_on_event(R, evt) ==
  IF evt.kind = "StreamEnd" /\ evt.error = ReplayError
    THEN Replay_schedule_replay(R)
    ELSE [R EXCEPT !.output = Append(@, evt)]

\* A faulty reset(): the timer is not cancelled.
Replay_reset_no_cancel(R) ==
  [R EXCEPT !.output = <<>>,
            !.m_buffer = <<>>,
            !.released = @ \cup ({R.m_pipeline} \ {NoPipeline}),
            !.m_pipeline = NoPipeline,
            !.sub_input = <<>>,
            !.m_replay_scheduled = FALSE]

\* Replay::reset(): m_timer.cancel() drops the callback that is scheduled.
Replay_reset(R) ==
  [R EXCEPT !.output = <<>>,
            !.m_buffer = <<>>,
            !.released = @ \cup ({R.m_pipeline} \ {NoPipeline}),
            !.m_pipeline = NoPipeline,
            !.sub_input = <<>>,
            !.timer = 0,
            !.cancelled = @ + R.timer,
            !.m_replay_scheduled = FALSE]

\* A Replay filter right after its constructor.
Replay_new ==
  [m_buffer |-> <<>>, m_pipeline |-> NoPipeline,
   m_replay_scheduled |-> FALSE, sub_input |-> <<>>,
   released |-> {}, made |-> 0, output |-> <<>>,
   timer |-> 0, cancelled |-> 0]

\* The upstream filter passes an event to Replay.
ReplayProcess ==
  /\ Len(r_processed) < MaxReplayEvents
  /\ replay.m_pipeline # NoPipeline \/ replay.made < MaxSubPipelines
  /\ \E e \in ReplayInputs :
       LET evt == [kind |-> e.kind, error |-> e.error,
                   body |-> Len(r_processed) + 1, copy |-> 0]
       IN  /\ replay' = Replay_process(replay, evt)
           /\ r_processed' = Append(r_processed, evt)
  /\ r_op' = "process"
  /\ UNCHANGED r_emitted
  /\ UNCHANGED <<lvars, qvars, pvars, yvars, cvars, svars, bvars>>

\* The current sub-pipeline emits an event on its output.
SubPipelineEmits ==
  /\ replay.m_pipeline # NoPipeline
  /\ Len(r_emitted) < MaxReplayOutput
  /\ \E e \in SubOutputs :
       /\ LET evt == [kind |-> e.kind, error |-> e.error,
                       body |-> Len(r_emitted) + 1,
                       copy |-> replay.m_pipeline]
          IN  /\ replay' = ReplayReceiver_on_event(replay, evt)
              /\ r_emitted' = Append(r_emitted, evt)
  /\ r_op' = "on_event"
  /\ UNCHANGED r_processed
  /\ UNCHANGED <<lvars, qvars, pvars, yvars, cvars, svars, bvars>>

\* The scheduler runs the timer callback of a scheduled replay.
ReplayTimerFires ==
  /\ replay.timer > 0
  /\ replay.made < MaxSubPipelines
  /\ replay' = Replay_on_timer(replay)
  /\ r_op' = "replay"
  /\ UNCHANGED <<r_processed, r_emitted>>
  /\ UNCHANGED <<lvars, qvars, pvars, yvars, cvars, svars, bvars>>

\* The owning pipeline is recycled and resets the filter.
ReplayReset ==
  /\ r_op # "reset"
  /\ replay.made < MaxSubPipelines
  /\ replay' = Replay_reset(replay)
  /\ r_op' = "reset"
  /\ r_processed' = <<>>
  /\ r_emitted' = <<>>
  /\ UNCHANGED <<lvars, qvars, pvars, yvars, cvars, svars, bvars>>

ReplayNext ==
  \/ ReplayProcess
  \/ SubPipelineEmits
  \/ ReplayTimerFires
  \/ ReplayReset

(***************************************************************************)
(* QueueMuxer, QueueMuxer::Stream and MuxQueue (filters/mux.cpp).          *)
(*   m_streams      the queue of Streams that wait for a reply             *)
(*   m_dedicated    the muxer is dedicated to its head Stream              *)
(*   m_is_closed    the session has replied with a StreamEnd               *)
(*   m_pipeline     the session is linked to its pipeline                  *)
(*   m_is_pending   the session is pending                                 *)
(*   m_waiting_muxers  the filters that wait for the pending session       *)
(*   streams[s]     Stream s: m_start (NoEvent for nullptr), m_buffer,     *)
(*                  m_queued_count, m_one_way, m_started, m_dedicated and  *)
(*                  refs, its reference count (0: not allocated), chained: *)
(*                  its output is chained to the output of its filter      *)
(*   filters[s]     the MuxQueue filter that owns Stream s: m_started and  *)
(*                  m_stream (the filter has opened its Stream)            *)
(*   session_input  the events the muxer has passed to the session         *)
(*   reply_log      the events the Streams have put on their outputs, in   *)
(*                  the order they were put there                          *)
(* An event is [kind, src, bytes]: src is the Stream the event was sent    *)
(* on (0 for an event made by the muxer), bytes the content of a Data as a *)
(* sequence of chunks, each tagged with the Stream it was sent on.         *)
(***************************************************************************)
Streams == 1 .. NStreams
NoEvent == [kind |-> "None", src |-> 0, bytes |-> <<>>]
MessageStart_make == [kind |-> "MessageStart", src |-> 0, bytes |-> <<>>]
MessageEnd_make == [kind |-> "MessageEnd", src |-> 0, bytes |-> <<>>]
Data_make(buffer) == [kind |-> "Data", src |-> 0, bytes |-> buffer]

\* EventFunction::output of the muxer: the event goes to the session.
QueueMuxer_output(M, evt) ==
  [M EXCEPT !.session_input = Append(@, evt)]

\* EventFunction::output of Stream s: the event leaves on the Stream's output.
Stream_output(M, s, evt) ==
  IF M.streams[s].chained
    THEN [M EXCEPT !.reply_log = Append(@, [stream |-> s, evt |-> evt])]
    ELSE M

\* A faulty head(): the Stream at the tail of the queue.
QueueMuxer_head_tail(M) == M.m_streams[Len(M.m_streams)]

\* m_streams.head()
QueueMuxer_head(M) == Head(M.m_streams)

\* m_streams.remove(s)
QueueMuxer_remove(M, s) ==
  LET Other(x) == x # s
  IN  [M EXCEPT !.m_streams = SelectSeq(@, Other)]

\* Stream::release()
Stream_release(M, s) == [M EXCEPT !.streams[s].refs = @ - 1]

\* QueueMuxer::open_stream()
QueueMuxer_open_stream(M, s) ==
  [M EXCEPT !.streams[s] =
     [m_start |-> NoEvent, m_buffer |-> <<>>, m_queued_count |-> 0,
      m_one_way |-> FALSE, m_started |-> FALSE, m_dedicated |-> FALSE,
      refs |-> 1, chained |-> FALSE]]

\* QueueMuxer::set_one_way(stream)
QueueMuxer_set_one_way(M, s) == [M EXCEPT !.streams[s].m_one_way = TRUE]

\* QueueMuxer::on_reply, the StreamEnd branch: every queued Stream gets the
\* StreamEnd, after a MessageStart when none was forwarded to it.
RECURSIVE QueueMuxer_on_reply_end(_, _)
QueueMuxer_on_reply_end(M, evt) ==
  IF M.m_streams = <<>>
    THEN M
    ELSE LET s == QueueMuxer_head(M)
             M1 == QueueMuxer_remove(M, s)
             M2 == IF ~M1.streams[s].m_started
                     THEN Stream_output(M1, s, MessageStart_make)
                     ELSE M1
             M3 == Stream_release(Stream_output(M2, s, evt), s)
         IN  QueueMuxer_on_reply_end(M3, evt)

\* A faulty MessageEnd branch: the Stream whose reply is complete is released
\* but stays at the head of the queue.
QueueMuxer_on_reply_message_end_keep(M, s, evt) ==
  LET M1 == [M EXCEPT !.streams[s].m_queued_count = @ - 1]
  IN  Stream_release(Stream_output(M1, s, evt), s)

\* QueueMuxer::on_reply, the MessageEnd branch on a started head Stream.
QueueMuxer_on_reply_message_end(M, s, evt) ==
  LET M1 == [M EXCEPT !.streams[s].m_queued_count = @ - 1]
  IN  IF M1.streams[s].m_queued_count = 0
        THEN Stream_release(Stream_output(QueueMuxer_remove(M1, s), s, evt), s)
        ELSE Stream_output([M1 EXCEPT !.streams[s].m_started = FALSE], s, evt)

\* QueueMuxer::on_reply(evt)
QueueMuxer_on_reply(M, evt) ==
  IF M.m_dedicated
    THEN IF M.m_streams # <<>>
           THEN LET s == QueueMuxer_head(M)
                IN  Stream_output(
                      [M EXCEPT !.streams[s].m_dedicated = TRUE], s, evt)
           ELSE M
    ELSE IF M.m_streams = <<>> /\ evt.kind # "StreamEnd"
      THEN M
      ELSE LET s == QueueMuxer_head(M)
           IN  CASE evt.kind = "MessageStart" ->
                      IF ~M.streams[s].m_started
                        THEN [Stream_output(M, s, evt)
                                EXCEPT !.streams[s].m_started = TRUE]
                        ELSE M
                 [] evt.kind = "Data" ->
                      IF M.streams[s].m_started
                        THEN Stream_output(M, s, evt)
                        ELSE M
                 [] evt.kind = "MessageEnd" ->
                      IF M.streams[s].m_started
                        THEN QueueMuxer_on_reply_message_end(M, s, evt)
                        ELSE M
                 [] evt.kind = "StreamEnd" ->
                      QueueMuxer_on_reply_end(M, evt)
                 [] OTHER -> M

\* A faulty enqueueing: the Stream is put at the front of the queue.
Stream_enqueue_front(M, s) ==
  IF ~M.streams[s].m_one_way
    THEN [M EXCEPT !.m_streams = <<s>> \o @, !.streams[s].refs = @ + 1]
    ELSE M

\* Stream::on_event, the enqueueing of a Stream whose message is complete.
Stream_enqueue(M, s) ==
  IF ~M.streams[s].m_one_way
    THEN [M EXCEPT !.m_streams = Append(@, s), !.streams[s].refs = @ + 1]
    ELSE M

\* A faulty flush: the message is ended with the event as it came, be it a
\* MessageEnd or a StreamEnd.
Stream_flush_end_as_given(M, s, evt) ==
  LET M1 == [M EXCEPT !.streams[s].m_queued_count = 1]
      M2 == Stream_enqueue(M1, s)
      M3 == QueueMuxer_output(M2, M2.streams[s].m_start)
      M4 == IF M3.streams[s].m_buffer # <<>>
              THEN [QueueMuxer_output(M3, Data_make(M3.streams[s].m_buffer))
                      EXCEPT !.streams[s].m_buffer = <<>>]
              ELSE M3
  IN  QueueMuxer_output(M4, evt)

\* A faulty flush: the buffered Data is sent after the MessageEnd.
Stream_flush_data_last(M, s, evt) ==
  LET M1 == [M EXCEPT !.streams[s].m_queued_count = 1]
      M2 == Stream_enqueue(M1, s)
      M3 == QueueMuxer_output(M2, M2.streams[s].m_start)
      M4 == QueueMuxer_output(
              M3, IF evt.kind = "MessageEnd" THEN evt ELSE MessageEnd_make)
  IN  IF M4.streams[s].m_buffer # <<>>
        THEN [QueueMuxer_output(M4, Data_make(M4.streams[s].m_buffer))
                EXCEPT !.streams[s].m_buffer = <<>>]
        ELSE M4

\* Stream::on_event, MessageEnd or StreamEnd: the message is flushed to the
\* session as the start, the buffered Data if any, and a MessageEnd.
Stream_flush(M, s, evt) ==
  LET M1 == [M EXCEPT !.streams[s].m_queued_count = 1]
      M2 == Stream_enqueue(M1, s)
      M3 == QueueMuxer_output(M2, M2.streams[s].m_start)
      M4 == IF M3.streams[s].m_buffer # <<>>
              THEN [QueueMuxer_output(M3, Data_make(M3.streams[s].m_buffer))
                      EXCEPT !.streams[s].m_buffer = <<>>]
              ELSE M3
  IN  QueueMuxer_output(
        M4, IF evt.kind = "MessageEnd" THEN evt ELSE MessageEnd_make)

\* A faulty on_event: every MessageStart replaces the recorded start and
\* empties the buffer.
Stream_on_event_last_start(M, s, evt) ==
  IF M.streams[s].m_dedicated
    THEN QueueMuxer_output(M, evt)
    ELSE CASE evt.kind = "MessageStart" ->
                [M EXCEPT !.streams[s].m_start = evt,
                          !.streams[s].m_buffer = <<>>]
           [] evt.kind = "Data" ->
                IF M.streams[s].m_start # NoEvent
                     /\ M.streams[s].m_queued_count = 0
                  THEN [M EXCEPT !.streams[s].m_buffer = @ \o evt.bytes]
                  ELSE M
           [] evt.kind \in {"MessageEnd", "StreamEnd"} ->
                IF M.streams[s].m_start # NoEvent
                     /\ M.streams[s].m_queued_count = 0
                  THEN Stream_flush(M, s, evt)
                  ELSE M
           [] OTHER -> M

\* QueueMuxer::Stream::on_event(evt)
Stream_on_event(M, s, evt) ==
  IF M.streams[s].m_dedicated
    THEN QueueMuxer_output(M, evt)
    ELSE CASE evt.kind = "MessageStart" ->
                IF M.streams[s].m_start = NoEvent
                  THEN [M EXCEPT !.streams[s].m_start = evt]
                  ELSE M
           [] evt.kind = "Data" ->
                IF M.streams[s].m_start # NoEvent
                     /\ M.streams[s].m_queued_count = 0
                  THEN [M EXCEPT !.streams[s].m_buffer = @ \o evt.bytes]
                  ELSE M
           [] evt.kind \in {"MessageEnd", "StreamEnd"} ->
                IF M.streams[s].m_start # NoEvent
                     /\ M.streams[s].m_queued_count = 0
                  THEN Stream_flush(M, s, evt)
                  ELSE M
           [] OTHER -> M

\* MuxBase::start_waiting()
Filter_start_waiting(M, f) ==
  IF ~M.filters[f].m_waiting
    THEN [M EXCEPT !.m_waiting_muxers = Append(@, f),
                   !.filters[f].m_waiting = TRUE]
    ELSE M

\* MuxBase::stop_waiting()
Filter_stop_waiting(M, f) ==
  IF M.filters[f].m_waiting
    THEN [M EXCEPT !.m_waiting_muxers = SelectSeq(@, LAMBDA g : g # f),
                   !.filters[f].m_waiting = FALSE]
    ELSE M

\* MuxBase::open_stream on a session that is linked: a filter without a
\* Stream waits while the session is pending and opens a Stream otherwise.
Filter_open_stream(M, f) ==
  IF ~M.filters[f].m_stream
    THEN IF M.m_is_pending
           THEN Filter_start_waiting(M, f)
           ELSE [QueueMuxer_open_stream(M, f) EXCEPT
                   !.filters[f].m_stream = TRUE,
                   !.streams[f].chained = TRUE]
    ELSE M

\* MuxBase::write_stream(evt)
Filter_write_stream(M, f, evt) ==
  IF M.filters[f].m_waiting
    THEN [M EXCEPT !.filters[f].m_waiting_events = Append(@, evt)]
    ELSE IF M.filters[f].m_stream THEN Stream_on_event(M, f, evt) ELSE M

\* MuxQueue::process(evt) with an isOneWay callback that returns ret.
MuxQueue_process(M, f, evt, ret) ==
  LET M1 == Filter_write_stream(Filter_open_stream(M, f), f, evt)
  IN  IF ~M1.filters[f].m_started /\ evt.kind = "MessageStart"
        THEN LET M2 == IF M1.filters[f].m_stream /\ ret
                         THEN QueueMuxer_set_one_way(M1, f)
                         ELSE M1
             IN  [M2 EXCEPT !.filters[f].m_started = TRUE]
        ELSE M1

\* A QueueMuxer session with no Stream, and MuxQueue filters that have seen
\* no event.
QueueMuxer_new ==
  [m_streams |-> <<>>, m_dedicated |-> FALSE, m_is_closed |-> FALSE,
   m_pipeline |-> TRUE, m_is_pending |-> FALSE, m_waiting_muxers |-> <<>>,
   streams |-> [s \in Streams |->
      [m_start |-> NoEvent, m_buffer |-> <<>>,
       m_queued_count |-> 0, m_one_way |-> FALSE,
       m_started |-> FALSE, m_dedicated |-> FALSE, refs |-> 0,
       chained |-> FALSE]],
   filters |-> [s \in Streams |->
      [m_started |-> FALSE, m_stream |-> FALSE,
       m_waiting |-> FALSE, m_waiting_events |-> <<>>]],
   session_input |-> <<>>, reply_log |-> <<>>]

\* The events a filter has been given so far form a prefix of one message:
\* MessageStart, at most MaxData Data, then MessageEnd or StreamEnd.
UpstreamStarted(f) == muxer.filters[f].m_started
UpstreamEnded(f) == \E i \in 1 .. Len(q_ended) : q_ended[i] = f

\* Filter f is given the MessageStart of its message; isOneWay returns ret.
UpstreamStart ==
  /\ \E f \in Streams, ret \in BOOLEAN :
       /\ ~UpstreamStarted(f)
       /\ muxer' = MuxQueue_process(
                     muxer, f,
                     [kind |-> "MessageStart", src |-> f, bytes |-> <<>>],
                     ret)
  /\ q_op' = "process"
  /\ UNCHANGED <<q_read, q_echoed, q_ended>>
  /\ UNCHANGED <<q_calls, q_last>>
  /\ UNCHANGED <<lvars, rvars, pvars, yvars, cvars, svars, bvars>>

\* The first MessageStart of filter f and a later one, with another head.
FirstStart(f) == [kind |-> "MessageStart", src |-> f, bytes |-> <<>>]
LaterStart(f) == [kind |-> "MessageStart", src |-> f, bytes |-> <<f>>]

\* Filter f is given another MessageStart before the end of its message.
UpstreamRestart ==
  /\ \E f \in Streams :
       /\ UpstreamStarted(f) /\ ~UpstreamEnded(f)
       /\ muxer' = MuxQueue_process(muxer, f, LaterStart(f), FALSE)
  /\ q_op' = "restart"
  /\ UNCHANGED <<q_read, q_echoed, q_ended>>
  /\ UNCHANGED <<q_calls, q_last>>
  /\ UNCHANGED <<lvars, rvars, pvars, yvars, cvars, svars, bvars>>

\* Filter f is given a Data of its message.
UpstreamData ==
  /\ \E f \in Streams :
       /\ UpstreamStarted(f) /\ ~UpstreamEnded(f)
       /\ Len(muxer.streams[f].m_buffer) < MaxData
       /\ muxer' = MuxQueue_process(
                     muxer, f,
                     [kind |-> "Data", src |-> f, bytes |-> <<f>>], FALSE)
  /\ q_op' = "process"
  /\ UNCHANGED <<q_read, q_echoed, q_ended>>
  /\ UNCHANGED <<q_calls, q_last>>
  /\ UNCHANGED <<lvars, rvars, pvars, yvars, cvars, svars, bvars>>

\* Filter f is given the end of its message, a MessageEnd or a StreamEnd.
UpstreamEnd ==
  /\ \E f \in Streams, kind \in {"MessageEnd", "StreamEnd"} :
       /\ UpstreamStarted(f) /\ ~UpstreamEnded(f)
       /\ muxer' = MuxQueue_process(
                     muxer, f, [kind |-> kind, src |-> f, bytes |-> <<>>],
                     FALSE)
       /\ q_ended' = Append(q_ended, f)
  /\ q_op' = "process"
  /\ UNCHANGED <<q_read, q_echoed>>
  /\ UNCHANGED <<q_calls, q_last>>
  /\ UNCHANGED <<lvars, rvars, pvars, yvars, cvars, svars, bvars>>

\* The Stream that sent the request event i of the session's input belongs
\* to: the sender of the last MessageStart up to i.
RECURSIVE RequestOf(_, _)
RequestOf(input, i) ==
  IF input[i].kind = "MessageStart" THEN input[i].src
                                    ELSE RequestOf(input, i - 1)

\* The session's sub-pipeline echoes the next event of its input, and the
\* session passes the reply to the muxer (MuxBase::Session::on_reply).
SessionEcho ==
  /\ q_read < Len(muxer.session_input)
  /\ muxer' = QueueMuxer_on_reply(muxer, muxer.session_input[q_read + 1])
  /\ q_read' = q_read + 1
  /\ q_echoed' = q_echoed \cup {q_read + 1}
  /\ q_op' = "on_reply"
  /\ UNCHANGED q_ended
  /\ UNCHANGED <<q_calls, q_last>>
  /\ UNCHANGED <<lvars, rvars, pvars, yvars, cvars, svars, bvars>>

\* The session's sub-pipeline consumes the next event of its input without a
\* reply: the event belongs to the request of a one_way Stream.
SessionSilent ==
  /\ q_read < Len(muxer.session_input)
  /\ muxer.streams[RequestOf(muxer.session_input, q_read + 1)].m_one_way
  /\ q_read' = q_read + 1
  /\ q_op' = "silent"
  /\ UNCHANGED <<muxer, q_echoed, q_ended>>
  /\ UNCHANGED <<q_calls, q_last>>
  /\ UNCHANGED <<lvars, rvars, pvars, yvars, cvars, svars, bvars>>

\* QueueMuxer::increase_queue_count()
QueueMuxer_increase_queue_count(M) ==
  IF M.m_streams # <<>>
    THEN [M EXCEPT !.streams[QueueMuxer_head(M)].m_queued_count = @ + 1]
    ELSE M

\* QueueMuxer::dedicate()
QueueMuxer_dedicate(M) == [M EXCEPT !.m_dedicated = TRUE]

\* A faulty on_reply of the session: the session is not marked closed.
Session_on_reply_open(M, evt) == QueueMuxer_on_reply(M, evt)

\* MuxBase::Session::on_reply(evt): the reply goes to the QueueMuxer, and a
\* StreamEnd closes the session.
Session_on_reply(M, evt) ==
  LET M1 == QueueMuxer_on_reply(M, evt)
  IN  IF evt.kind = "StreamEnd" THEN [M1 EXCEPT !.m_is_closed = TRUE] ELSE M1

\* Filters that are given message after message on their one Stream: for
\* each filter q_calls.filters has msgs, the messages that have ended, open,
\* whether a message has started and not ended, data, the Data of the open
\* message, ended, whether the filter was given a StreamEnd, and ret, what
\* isOneWay answers for the first MessageStart since its last reset.  The
\* session sends messages too: reply_open and reply_data are open and data
\* of its output, replies counts its events, increases the calls of
\* increase_queue_count().
NoCalls ==
  [filters |-> [f \in Streams |->
                  [msgs |-> 0, open |-> FALSE, data |-> 0, ended |-> FALSE,
                   ret |-> FALSE]],
   replies |-> 0, reply_open |-> FALSE, reply_data |-> 0, increases |-> 0,
   resets |-> 0]

\* The messages the filters have been given so far, those begun included.
RECURSIVE MessagesGivenTo(_)
MessagesGivenTo(f) ==
  IF f = 0
    THEN 0
    ELSE q_calls.filters[f].msgs
           + (IF q_calls.filters[f].open THEN 1 ELSE 0)
           + MessagesGivenTo(f - 1)
MessagesGiven == MessagesGivenTo(NStreams)

\* Filter f is given the MessageStart of its next message.
FilterMessageStart ==
  /\ \E f \in Streams, ret \in BOOLEAN :
       LET evt == [kind |-> "MessageStart", src |-> f, bytes |-> <<>>]
       IN  /\ ~q_calls.filters[f].open /\ ~q_calls.filters[f].ended
           /\ muxer.m_pipeline
           /\ muxer.filters[f].m_stream \/ muxer.streams[f].refs = 0
           /\ MessagesGiven + q_calls.resets < MaxUpMessages
           /\ muxer.filters[f].m_started => ~ret
           /\ muxer' = MuxQueue_process(muxer, f, evt, ret)
           /\ q_calls' = [q_calls EXCEPT
                            !.filters[f].open = TRUE,
                            !.filters[f].data = 0,
                            !.filters[f].ret =
                               IF muxer.filters[f].m_started THEN @ ELSE ret]
           /\ q_last' = [stream |-> f, evt |-> evt]
  /\ q_op' = "process"
  /\ UNCHANGED <<q_read, q_echoed, q_ended>>
  /\ UNCHANGED <<lvars, rvars, pvars, yvars, cvars, svars, bvars>>

\* Filter f is given a Data of its open message.
FilterMessageData ==
  /\ \E f \in Streams :
       LET evt == [kind |-> "Data", src |-> f, bytes |-> <<f>>]
       IN  /\ q_calls.filters[f].open
           /\ q_calls.filters[f].data < MaxData
           /\ muxer' = MuxQueue_process(muxer, f, evt, FALSE)
           /\ q_calls' = [q_calls EXCEPT !.filters[f].data = @ + 1]
           /\ q_last' = [stream |-> f, evt |-> evt]
  /\ q_op' = "process"
  /\ UNCHANGED <<q_read, q_echoed, q_ended>>
  /\ UNCHANGED <<lvars, rvars, pvars, yvars, cvars, svars, bvars>>

\* Filter f is given the end of its open message, a MessageEnd or, as its
\* last event, a StreamEnd.
FilterMessageEnd ==
  /\ \E f \in Streams, kind \in {"MessageEnd", "StreamEnd"} :
       LET evt == [kind |-> kind, src |-> f, bytes |-> <<>>]
       IN  /\ q_calls.filters[f].open
           /\ muxer' = MuxQueue_process(muxer, f, evt, FALSE)
           /\ q_calls' = [q_calls EXCEPT
                            !.filters[f].open = FALSE,
                            !.filters[f].msgs = @ + 1,
                            !.filters[f].ended = (kind = "StreamEnd")]
           /\ q_last' = [stream |-> f, evt |-> evt]
  /\ q_op' = "process"
  /\ UNCHANGED <<q_read, q_echoed, q_ended>>
  /\ UNCHANGED <<lvars, rvars, pvars, yvars, cvars, svars, bvars>>

\* The session's sub-pipeline sends the next event of its output: messages
\* (MessageStart, at most MaxData Data, MessageEnd), whether or not a Stream
\* waits for one, and a StreamEnd at any point.
SessionReply ==
  /\ \E kind \in {"MessageStart", "Data", "MessageEnd", "StreamEnd"} :
       LET evt == [kind |-> kind, src |-> 0,
                   bytes |-> IF kind = "Data" THEN <<0>> ELSE <<>>]
       IN  /\ ~muxer.m_is_closed /\ muxer.m_pipeline
           /\ q_calls.replies < MaxReplies
           /\ kind = "MessageStart" => ~q_calls.reply_open
           /\ kind = "Data" => /\ q_calls.reply_open
                               /\ q_calls.reply_data < MaxData
           /\ kind = "MessageEnd" => q_calls.reply_open
           /\ muxer' = Session_on_reply(muxer, evt)
           /\ q_calls' = [q_calls EXCEPT
                            !.replies = @ + 1,
                            !.reply_open = (kind \in {"MessageStart", "Data"}),
                            !.reply_data = IF kind = "Data" THEN @ + 1 ELSE 0]
           /\ q_last' = [stream |-> 0, evt |-> evt]
  /\ q_op' = "on_reply"
  /\ UNCHANGED <<q_read, q_echoed, q_ended>>
  /\ UNCHANGED <<lvars, rvars, pvars, yvars, cvars, svars, bvars>>

\* A protocol filter announces one more reply for the head Stream.
IncreaseQueueCount ==
  /\ q_calls.increases < MaxIncrease
  /\ muxer' = QueueMuxer_increase_queue_count(muxer)
  /\ q_calls' = [q_calls EXCEPT !.increases = @ + 1]
  /\ q_last' = [stream |-> 0, evt |-> NoEvent]
  /\ q_op' = "increase_queue_count"
  /\ UNCHANGED <<q_read, q_echoed, q_ended>>
  /\ UNCHANGED <<lvars, rvars, pvars, yvars, cvars, svars, bvars>>

\* A protocol filter dedicates the session to the head Stream.
Dedicate ==
  /\ ~muxer.m_dedicated
  /\ muxer' = QueueMuxer_dedicate(muxer)
  /\ q_last' = [stream |-> 0, evt |-> NoEvent]
  /\ q_op' = "dedicate"
  /\ UNCHANGED <<q_read, q_echoed, q_ended, q_calls>>
  /\ UNCHANGED <<lvars, rvars, pvars, yvars, cvars, svars, bvars>>

\* A faulty reset of the QueueMuxer: the queue is emptied, the dedicated
\* flag is kept.
QueueMuxer_reset_keep_dedicated(M) ==
  [M EXCEPT !.m_streams = <<>>,
            !.streams = [s \in Streams |->
               IF \E i \in 1 .. Len(M.m_streams) : M.m_streams[i] = s
                 THEN [M.streams[s] EXCEPT !.refs = @ - 1]
                 ELSE M.streams[s]]]

\* QueueMuxer::reset()
RECURSIVE QueueMuxer_reset(_)
QueueMuxer_reset(M) ==
  IF M.m_streams = <<>>
    THEN [M EXCEPT !.m_dedicated = FALSE]
    ELSE LET s == QueueMuxer_head(M)
         IN  QueueMuxer_reset(Stream_release(QueueMuxer_remove(M, s), s))

\* MuxBase::Session::unlink() of a MuxQueue::Session: close() resets the
\* QueueMuxer, a StreamEnd goes to the pipeline, the pipeline is let go.
QueueSession_unlink(M) ==
  IF M.m_pipeline
    THEN [QueueMuxer_output(
            QueueMuxer_reset(M),
            [kind |-> "StreamEnd", src |-> 0, bytes |-> <<>>])
          EXCEPT !.m_pipeline = FALSE]
    ELSE M

\* A faulty reset of a filter: its Stream is taken out of the queue too.
MuxQueue_reset_dequeue(M, f) ==
  IF M.filters[f].m_stream
    THEN [QueueMuxer_remove(M, f) EXCEPT
            !.streams[f].chained = FALSE,
            !.streams[f].refs =
               IF \E i \in 1 .. Len(M.m_streams) : M.m_streams[i] = f
                 THEN 0 ELSE @ - 1,
            !.filters[f].m_started = FALSE,
            !.filters[f].m_stream = FALSE]
    ELSE [M EXCEPT !.filters[f].m_started = FALSE]

\* MuxQueue::reset() of a filter that has a session: MuxBase::reset() stops
\* waiting, unchains and closes the Stream and drops the waiting events,
\* then m_started is cleared.
MuxQueue_reset(M, f) ==
  LET M1 == Filter_stop_waiting(M, f)
      M2 == IF M1.filters[f].m_stream
              THEN [Stream_release(
                      [M1 EXCEPT !.streams[f].chained = FALSE], f)
                    EXCEPT !.filters[f].m_stream = FALSE]
              ELSE M1
  IN  [M2 EXCEPT !.filters[f].m_waiting_events = <<>>,
                 !.filters[f].m_started = FALSE]

\* The events evts are written to the Stream of filter f one by one.
RECURSIVE Filter_write_events(_, _, _)
Filter_write_events(M, f, evts) ==
  IF evts = <<>>
    THEN M
    ELSE Filter_write_events(
           Stream_on_event(M, f, Head(evts)), f, Tail(evts))

\* on_pending_session_open() of a waiting filter: its buffered events are
\* flushed into a freshly opened Stream of its session.
Filter_on_pending_session_open(M, f) ==
  LET M1 == [QueueMuxer_open_stream(M, f) EXCEPT
               !.filters[f].m_stream = TRUE,
               !.streams[f].chained = TRUE]
  IN  [Filter_write_events(M1, f, M.filters[f].m_waiting_events)
       EXCEPT !.filters[f].m_waiting_events = <<>>]

\* MuxBase::flush_waiting()
Filter_flush_waiting(M, f) ==
  Filter_stop_waiting(Filter_on_pending_session_open(M, f), f)

\* MuxBase::Session::set_pending(pending)
RECURSIVE QueueSession_flush_all(_, _)
QueueSession_flush_all(M, waiting) ==
  IF waiting = <<>>
    THEN M
    ELSE QueueSession_flush_all(
           Filter_flush_waiting(M, Head(waiting)), Tail(waiting))
QueueSession_set_pending(M, pending) ==
  IF pending # M.m_is_pending
    THEN [(IF ~pending
             THEN QueueSession_flush_all(M, M.m_waiting_muxers)
             ELSE M)
          EXCEPT !.m_is_pending = pending]
    ELSE M

\* The handshake of the pending session completes: set_pending(false).
QueueSessionOpens ==
  /\ muxer.m_is_pending
  /\ muxer' = QueueSession_set_pending(muxer, FALSE)
  /\ q_last' = [stream |-> 0, evt |-> NoEvent]
  /\ q_op' = "set_pending"
  /\ UNCHANGED <<q_read, q_echoed, q_ended, q_calls>>
  /\ UNCHANGED <<lvars, rvars, pvars, yvars, cvars, svars, bvars>>

\* The pipeline of filter f is recycled: the filter is reset, and its next
\* event begins a new message.
FilterReset ==
  /\ \E f \in Streams :
       /\ q_calls.resets < MaxResets
       /\ muxer.filters[f].m_stream \/ muxer.filters[f].m_waiting
       /\ muxer' = MuxQueue_reset(muxer, f)
       /\ q_calls' = [q_calls EXCEPT
                        !.resets = @ + 1,
                        !.filters[f].open = FALSE,
                        !.filters[f].data = 0,
                        !.filters[f].ended = FALSE,
                        !.filters[f].ret = FALSE]
       /\ q_last' = [stream |-> f, evt |-> NoEvent]
  /\ q_op' = "reset"
  /\ UNCHANGED <<q_read, q_echoed, q_ended>>
  /\ UNCHANGED <<lvars, rvars, pvars, yvars, cvars, svars, bvars>>

\* No filter holds the session any more and the session is recycled.
SessionUnlink ==
  /\ muxer.m_pipeline
  /\ \A f \in Streams :
       ~muxer.filters[f].m_stream /\ ~muxer.filters[f].m_waiting
  /\ \E f \in Streams : muxer.streams[f].m_start # NoEvent
  /\ muxer' = QueueSession_unlink(muxer)
  /\ q_last' = [stream |-> 0, evt |-> NoEvent]
  /\ q_op' = "unlink"
  /\ UNCHANGED <<q_read, q_echoed, q_ended, q_calls>>
  /\ UNCHANGED <<lvars, rvars, pvars, yvars, cvars, svars, bvars>>

\* Filters that are reset and a session that is unlinked in the end.
UnlinkNext ==
  \/ FilterMessageStart
  \/ FilterMessageData
  \/ FilterMessageEnd
  \/ SessionReply
  \/ Dedicate
  \/ FilterReset
  \/ SessionUnlink

\* Filters with an isOneWay callback on a session that may be pending at
\* first.
OneWayNext ==
  \/ FilterMessageStart
  \/ FilterMessageData
  \/ FilterMessageEnd
  \/ SessionReply
  \/ QueueSessionOpens

\* Filters that send several messages and a session that replies as it
\* likes and may be dedicated to its head Stream.
PipelinedNext ==
  \/ FilterMessageStart
  \/ FilterMessageData
  \/ FilterMessageEnd
  \/ SessionReply
  \/ IncreaseQueueCount
  \/ Dedicate

QueueNext ==
  \/ UpstreamStart
  \/ UpstreamData
  \/ UpstreamEnd
  \/ SessionEcho
  \/ SessionSilent

\* The same with upstream filters that may repeat their MessageStart.
QueueRestartNext ==
  \/ UpstreamStart
  \/ UpstreamRestart
  \/ UpstreamData
  \/ UpstreamEnd
  \/ SessionEcho
  \/ SessionSilent

(***************************************************************************)
(* MuxBase, MuxBase::Session, SessionCluster and SessionPool               *)
(* (filters/mux.cpp).                                                      *)
(*   sessions[s]  Session s: live (the object exists), m_cluster (the key  *)
(*                of its cluster, NoKey for nullptr), m_share_count,       *)
(*                m_message_count, m_free_time, m_is_pending, m_is_closed, *)
(*                m_pipeline (a pipeline is linked), m_waiting_muxers      *)
(*   clusters[k]  the SessionCluster of key k: exists, m_sessions,         *)
(*                m_recycle_scheduled, m_weak_ptr_gone                     *)
(*   options      m_max_idle, m_max_queue and m_max_messages of clusters,  *)
(*                and weak: the session keys are objects, not values       *)
(*   m_clusters, m_weak_clusters  the keys of the pool's two maps          *)
(*   m_recycle_clusters, m_recycling  the recycle list and timer flag      *)
(*   m_has_shutdown  shutdown() has been called                            *)
(*   timer_due    when m_recycle_timer fires                               *)
(*   muxers[m]    mux filter m: m_session_key (NoKey for undefined),       *)
(*                m_session (NoSession for nullptr), m_stream (a Stream is *)
(*                open), m_waiting, m_waiting_events, and stream_input:    *)
(*                the events written to the input of m_stream              *)
(*   now          utils::now(), in seconds                                 *)
(*   recycled     the sessions the last callback has unlinked (StreamEnd   *)
(*                to the pipeline) and detached, with their cluster        *)
(***************************************************************************)
Muxers == 1 .. NMuxers
SessionIds == 1 .. MaxSessions
Keys == 1 .. NKeys
MoreKeys == 1 .. (NKeys + 1)
NoKey == 0
NoSession == 0
ClusterOptionsOf(w) ==
  {[max_idle |-> 2, max_queue |-> 0, max_messages |-> 0, weak |-> w],
   [max_idle |-> 2, max_queue |-> 1, max_messages |-> 2, weak |-> w],
   [max_idle |-> 2, max_queue |-> 2, max_messages |-> 1, weak |-> w]}

ClusterOptions == ClusterOptionsOf(TRUE) \cup ClusterOptionsOf(FALSE)

BlankSession ==
  [live |-> FALSE, m_cluster |-> NoKey, m_share_count |-> 0,
   m_message_count |-> 0, m_free_time |-> 0, m_is_pending |-> FALSE,
   m_is_closed |-> FALSE, m_pipeline |-> FALSE, m_waiting_muxers |-> <<>>]

BlankCluster ==
  [exists |-> FALSE, m_sessions |-> <<>>, m_recycle_scheduled |-> FALSE,
   m_weak_ptr_gone |-> FALSE]

\* A Session as its constructor leaves it: the creating muxer's share is
\* counted, the message counter starts at mc (the member initialisers are
\* in the class declaration).
Session_new(mc) ==
  [BlankSession EXCEPT !.live = TRUE, !.m_share_count = 1,
                       !.m_message_count = mc]
NewSessionMessageCounts == {0, 1}

\* List<T>: the position of an item, remove(item), and the insertion of an
\* item so that it becomes element i.
List_index(list, x) == CHOOSE i \in 1 .. Len(list) : list[i] = x
List_remove(list, x) ==
  LET Other(y) == y # x
  IN  SelectSeq(list, Other)
List_insert(list, i, x) ==
  SubSeq(list, 1, i - 1) \o <<x>> \o SubSeq(list, i, Len(list))
SetMax(S) == CHOOSE x \in S : \A y \in S : y <= x
SetMin(S) == CHOOSE x \in S : \A y \in S : x <= y

\* MuxBase::start_waiting()
MuxBase_start_waiting(P, m) ==
  IF ~P.muxers[m].m_waiting
    THEN [P EXCEPT
            !.sessions[P.muxers[m].m_session].m_waiting_muxers = Append(@, m),
            !.muxers[m].m_waiting = TRUE]
    ELSE P

\* MuxBase::stop_waiting()
MuxBase_stop_waiting(P, m) ==
  IF P.muxers[m].m_waiting
    THEN [P EXCEPT
            !.sessions[P.muxers[m].m_session].m_waiting_muxers =
               List_remove(@, m),
            !.muxers[m].m_waiting = FALSE]
    ELSE P

\* A faulty write_stream(): a waiting muxer puts the event in front of the
\* buffered ones.
MuxBase_write_stream_unshift(P, m, evt) ==
  IF P.muxers[m].m_waiting
    THEN [P EXCEPT !.muxers[m].m_waiting_events = <<evt>> \o @]
    ELSE IF P.muxers[m].m_stream
           THEN [P EXCEPT !.muxers[m].stream_input = Append(@, evt)]
           ELSE P

\* MuxBase::write_stream(evt)
MuxBase_write_stream(P, m, evt) ==
  IF P.muxers[m].m_waiting
    THEN [P EXCEPT !.muxers[m].m_waiting_events = Append(@, evt)]
    ELSE IF P.muxers[m].m_stream
           THEN [P EXCEPT !.muxers[m].stream_input = Append(@, evt)]
           ELSE P

\* on_pending_session_open(): the muxer's buffered events are flushed into
\* a freshly opened Stream of its session.
MuxBase_on_pending_session_open(P, m) ==
  [P EXCEPT !.muxers[m].m_stream = TRUE,
            !.muxers[m].stream_input = @ \o P.muxers[m].m_waiting_events,
            !.muxers[m].m_waiting_events = <<>>]

\* MuxBase::flush_waiting()
MuxBase_flush_waiting(P, m) ==
  MuxBase_stop_waiting(MuxBase_on_pending_session_open(P, m), m)

\* MuxBase::Session::set_pending(pending)
RECURSIVE Session_flush_muxers(_, _)
Session_flush_muxers(P, list) ==
  IF list = <<>>
    THEN P
    ELSE Session_flush_muxers(MuxBase_flush_waiting(P, Head(list)), Tail(list))
Session_set_pending(P, s, pending) ==
  IF pending # P.sessions[s].m_is_pending
    THEN LET P1 == IF ~pending
                     THEN Session_flush_muxers(
                            P, P.sessions[s].m_waiting_muxers)
                     ELSE P
         IN  [P1 EXCEPT !.sessions[s].m_is_pending = pending]
    ELSE P

\* MuxBase::Session::link(pipeline): open() of a session whose protocol
\* starts with a handshake makes the session pending.
Session_link(P, s, pending) ==
  Session_set_pending([P EXCEPT !.sessions[s].m_pipeline = TRUE], s, pending)

\* MuxBase::Session::unlink(): the pipeline gets a StreamEnd and is released.
Session_unlink(P, s) ==
  IF P.sessions[s].m_pipeline
    THEN [P EXCEPT !.sessions[s].m_pipeline = FALSE,
                   !.recycled = @ \cup {[session |-> s,
                                         cluster |-> P.sessions[s].m_cluster]}]
    ELSE P

\* MuxBase::Session::on_reply(evt) for a StreamEnd
Session_on_reply_end(P, s) == [P EXCEPT !.sessions[s].m_is_closed = TRUE]

\* MuxBase::SessionPool::recycle(): start the one-second timer.
SessionPool_recycle(P) ==
  IF P.m_recycling \/ P.m_recycle_clusters = <<>>
    THEN P
    ELSE [P EXCEPT !.timer_due = P.now + 1, !.m_recycling = TRUE]

\* MuxBase::SessionCluster::schedule_recycling()
SessionCluster_schedule_recycling(P, k) ==
  LET list == P.clusters[k].m_sessions
  IN  IF list = <<>> \/ P.sessions[Head(list)].m_share_count > 0
        THEN IF P.clusters[k].m_recycle_scheduled
               THEN [P EXCEPT
                       !.m_recycle_clusters = List_remove(@, k),
                       !.clusters[k].m_recycle_scheduled = FALSE]
               ELSE P
        ELSE IF ~P.clusters[k].m_recycle_scheduled
               THEN [SessionPool_recycle(
                       [P EXCEPT !.m_recycle_clusters = Append(@, k)])
                       EXCEPT !.clusters[k].m_recycle_scheduled = TRUE]
               ELSE P

\* MuxBase::SessionCluster::sort(session), the list part: the session moves
\* back past the sessions that share more, or forward past those that share
\* less.
SessionCluster_sort_list(P, k, s) ==
  LET list == P.clusters[k].m_sessions
      count(x) == P.sessions[x].m_share_count
      i == List_index(list, s)
      n == Len(list)
      Back == {j \in 1 .. (i - 1) : count(list[j]) <= count(s)}
      p == IF Back = {} THEN 0 ELSE SetMax(Back)
      Fwd == {j \in (i + 1) .. n : count(list[j]) >= count(s)}
      q == IF Fwd = {} THEN n + 1 ELSE SetMin(Fwd)
      rest == List_remove(list, s)
  IN  IF p = i - 1
        THEN IF q # i + 1
               THEN IF q <= n
                      THEN List_insert(rest, q - 1, s)
                      ELSE Append(rest, s)
               ELSE list
        ELSE IF p >= 1
               THEN List_insert(rest, p + 1, s)
               ELSE <<s>> \o rest

\* A faulty sort(): a cluster left without sessions stays in the pool.
SessionCluster_sort_keep_empty(P, k, s) ==
  LET P1 == IF s # NoSession
              THEN [P EXCEPT !.clusters[k].m_sessions =
                               SessionCluster_sort_list(P, k, s)]
              ELSE P
  IN  SessionCluster_schedule_recycling(P1, k)

\* MuxBase::SessionCluster::sort(session): s is NoSession for nullptr.
SessionCluster_sort(P, k, s) ==
  LET P1 == IF s # NoSession
              THEN [P EXCEPT !.clusters[k].m_sessions =
                               SessionCluster_sort_list(P, k, s)]
              ELSE P
      P2 == SessionCluster_schedule_recycling(P1, k)
  IN  IF P2.clusters[k].m_sessions = <<>>
        THEN [P2 EXCEPT !.m_weak_clusters = @ \ {k},
                        !.m_clusters = @ \ {k},
                        !.clusters[k] = BlankCluster]
        ELSE P2

\* A faulty search: the share count is not compared with max_queue.
SessionCluster_alloc_find_any_share(P, k) ==
  LET list == P.clusters[k].m_sessions
      Fits(x) ==
        /\ ~P.sessions[x].m_is_closed
        /\ P.options.max_messages <= 0
             \/ P.sessions[x].m_message_count < P.options.max_messages
      Found == {j \in 1 .. Len(list) : Fits(list[j])}
  IN  IF Found = {} THEN NoSession ELSE list[SetMin(Found)]

\* A faulty search: a closed session is handed out like any other.
SessionCluster_alloc_find_closed(P, k) ==
  LET list == P.clusters[k].m_sessions
      Fits(x) ==
        /\ P.options.max_queue <= 0
             \/ P.sessions[x].m_share_count < P.options.max_queue
        /\ P.options.max_messages <= 0
             \/ P.sessions[x].m_message_count < P.options.max_messages
      Found == {j \in 1 .. Len(list) : Fits(list[j])}
  IN  IF Found = {} THEN NoSession ELSE list[SetMin(Found)]

\* The first session of the cluster that alloc() may hand out, NoSession
\* when there is none.
SessionCluster_alloc_find(P, k) ==
  LET list == P.clusters[k].m_sessions
      Fits(x) ==
        /\ ~P.sessions[x].m_is_closed
        /\ P.options.max_queue <= 0
             \/ P.sessions[x].m_share_count < P.options.max_queue
        /\ P.options.max_messages <= 0
             \/ P.sessions[x].m_message_count < P.options.max_messages
      Found == {j \in 1 .. Len(list) : Fits(list[j])}
  IN  IF Found = {} THEN NoSession ELSE list[SetMin(Found)]

\* MuxBase::SessionCluster::alloc(): new is the Session object that
\* session() makes when no session fits.
SessionCluster_alloc(P, k, new, mc) ==
  LET s == SessionCluster_alloc_find(P, k)
  IN  IF s # NoSession
        THEN SessionCluster_sort(
               [P EXCEPT !.sessions[s].m_share_count = @ + 1,
                         !.sessions[s].m_message_count = @ + 1],
               k, s)
        ELSE [P EXCEPT
                !.sessions[new] = [Session_new(mc) EXCEPT !.m_cluster = k],
                !.clusters[k].m_sessions = <<new>> \o @]

\* The session alloc() returns.
SessionCluster_alloc_result(P, k, new) ==
  LET s == SessionCluster_alloc_find(P, k)
  IN  IF s # NoSession THEN s ELSE new

\* A faulty free(): the share count is left as it is.
SessionCluster_free_keep(P, s) ==
  SessionCluster_sort(P, P.sessions[s].m_cluster, s)

\* MuxBase::SessionCluster::free(session)
SessionCluster_free(P, s) ==
  LET k == P.sessions[s].m_cluster
      P1 == [P EXCEPT !.sessions[s].m_share_count = @ - 1]
      P2 == IF P1.sessions[s].m_share_count = 0
              THEN [P1 EXCEPT !.sessions[s].m_free_time = P.now]
              ELSE P1
  IN  SessionCluster_sort(P2, k, s)

\* MuxBase::SessionCluster::discard(session): the cluster drops its
\* reference; a session no muxer refers to is destroyed.
SessionCluster_discard(P, k, s) ==
  LET P1 == [P EXCEPT !.clusters[k].m_sessions = List_remove(@, s),
                      !.sessions[s] =
                         IF \E m \in Muxers : P.muxers[m].m_session = s
                           THEN @
                           ELSE BlankSession]
  IN  SessionCluster_sort(P1, k, NoSession)

\* MuxBase::Session::detach()
Session_detach(P, s) ==
  LET k == P.sessions[s].m_cluster
  IN  IF k # NoKey
        THEN SessionCluster_discard(
               [P EXCEPT !.sessions[s].m_cluster = NoKey], k, s)
        ELSE P

\* MuxBase::Session::free()
Session_free(P, s) ==
  IF P.sessions[s].m_cluster # NoKey
    THEN SessionCluster_free(P, s)
    ELSE Session_unlink(P, s)

\* A faulty test: m_weak_ptr_gone is not looked at.
SessionCluster_recyclable_no_weak(P, s, now) ==
  \/ P.sessions[s].m_is_closed
  \/ /\ P.options.max_messages > 0
     /\ P.sessions[s].m_message_count >= P.options.max_messages
  \/ now - P.sessions[s].m_free_time >= P.options.max_idle

\* MuxBase::SessionCluster::recycle(now), the test of one free session.
SessionCluster_recyclable(P, s, now) ==
  \/ P.sessions[s].m_is_closed
  \/ P.clusters[P.sessions[s].m_cluster].m_weak_ptr_gone
  \/ /\ P.options.max_messages > 0
     /\ P.sessions[s].m_message_count >= P.options.max_messages
  \/ now - P.sessions[s].m_free_time >= P.options.max_idle

\* MuxBase::SessionCluster::recycle(now): from the head, up to the first
\* session that is shared.
RECURSIVE SessionCluster_recycle_from(_, _, _)
SessionCluster_recycle_from(P, list, now) ==
  IF list = <<>>
    THEN P
    ELSE LET s == Head(list)
         IN  IF P.sessions[s].m_share_count > 0
               THEN P
               ELSE SessionCluster_recycle_from(
                      IF SessionCluster_recyclable(P, s, now)
                        THEN Session_detach(Session_unlink(P, s), s)
                        ELSE P,
                      Tail(list), now)
SessionCluster_recycle(P, k, now) ==
  SessionCluster_recycle_from(P, P.clusters[k].m_sessions, now)

\* MuxBase::SessionCluster::on_weak_ptr_gone()
SessionCluster_on_weak_ptr_gone(P, k) ==
  SessionCluster_schedule_recycling(
    [P EXCEPT !.clusters[k].m_weak_ptr_gone = TRUE,
              !.m_weak_clusters = @ \ {k}],
    k)

\* A faulty lookup: a cluster that the pool has serves any key.
SessionPool_alloc_any_cluster(P, key, new, mc) ==
  LET known == P.m_clusters \cup P.m_weak_clusters
      c == IF known # {} THEN SetMin(known) ELSE key
      P1 == IF known # {}
              THEN P
              ELSE [P EXCEPT
                      !.clusters[key] = [BlankCluster EXCEPT !.exists = TRUE],
                      !.m_weak_clusters =
                         IF P.options.weak THEN @ \cup {key} ELSE @,
                      !.m_clusters =
                         IF P.options.weak THEN @ ELSE @ \cup {key}]
  IN  SessionCluster_alloc(P1, c, new, mc)

\* MuxBase::SessionPool::alloc(mux, key)
SessionPool_alloc(P, key, new, mc) ==
  LET known == IF P.options.weak
                 THEN key \in P.m_weak_clusters
                 ELSE key \in P.m_clusters
      P1 == IF known
              THEN P
              ELSE [P EXCEPT
                      !.clusters[key] = [BlankCluster EXCEPT !.exists = TRUE],
                      !.m_weak_clusters =
                         IF P.options.weak THEN @ \cup {key} ELSE @,
                      !.m_clusters =
                         IF P.options.weak THEN @ ELSE @ \cup {key}]
  IN  SessionCluster_alloc(P1, key, new, mc)

\* MuxBase::SessionPool::shutdown()
SessionPool_shutdown(P) == [P EXCEPT !.m_has_shutdown = TRUE]

\* std::numeric_limits<double>::infinity() as a time: later than any time
\* of the clock by more than any max_idle.
Infinity == MaxTime + SetMax({o.max_idle : o \in ClusterOptions}) + 1

\* The callback SessionPool::recycle() puts on m_recycle_timer.
RECURSIVE SessionPool_recycle_clusters(_, _, _)
SessionPool_recycle_clusters(P, list, now) ==
  IF list = <<>>
    THEN P
    ELSE SessionPool_recycle_clusters(
           SessionCluster_recycle(P, Head(list), now), Tail(list), now)
SessionPool_on_timer(P) ==
  LET now == IF P.m_has_shutdown THEN Infinity ELSE P.now
  IN  SessionPool_recycle(
        SessionPool_recycle_clusters(
          [P EXCEPT !.m_recycling = FALSE], P.m_recycle_clusters, now))

\* MuxBase::open_stream(output): key is what on_select_session() selects.
MuxBase_open_stream(P, m, key, new, mc, pending) ==
  IF ~P.muxers[m].m_stream
    THEN LET P1 == IF P.muxers[m].m_session = NoSession
                     THEN [SessionPool_alloc(P, key, new, mc) EXCEPT
                             !.muxers[m].m_session_key = key,
                             !.muxers[m].m_session =
                                SessionCluster_alloc_result(P, key, new)]
                     ELSE P
             s == P1.muxers[m].m_session
             P2 == IF ~P1.sessions[s].m_pipeline
                     THEN Session_link(P1, s, pending)
                     ELSE P1
         IN  IF P2.sessions[s].m_is_pending
               THEN MuxBase_start_waiting(P2, m)
               ELSE [P2 EXCEPT !.muxers[m].m_stream = TRUE]
    ELSE P

\* A faulty reset(): the session is freed but m_session is not cleared.
MuxBase_reset_keep_session(P, m) ==
  LET s == P.muxers[m].m_session
  IN  IF s # NoSession
        THEN Session_free(
               [MuxBase_stop_waiting(P, m)
                  EXCEPT !.muxers[m].m_stream = FALSE],
               s)
        ELSE P

\* MuxBase::reset()
MuxBase_reset(P, m) ==
  LET s == P.muxers[m].m_session
      P1 == IF s # NoSession
              THEN Session_free(
                     [MuxBase_stop_waiting(P, m)
                        EXCEPT !.muxers[m].m_stream = FALSE],
                     s)
              ELSE P
  IN  [P1 EXCEPT !.muxers[m] =
         [m_session_key |-> NoKey, m_session |-> NoSession,
          m_stream |-> FALSE, m_waiting |-> FALSE,
          m_waiting_events |-> <<>>, stream_input |-> <<>>]]

\* An empty SessionPool whose clusters get the given options, and mux
\* filters that have no session and whose selectors return the given keys.
SessionPool_for(options, keys) ==
  [sessions |-> [s \in SessionIds |-> BlankSession],
   clusters |-> [k \in keys |-> BlankCluster],
   options |-> options,
   m_clusters |-> {}, m_weak_clusters |-> {},
   m_recycle_clusters |-> <<>>, m_recycling |-> FALSE,
   m_has_shutdown |-> FALSE,
   timer_due |-> 0,
   muxers |-> [m \in Muxers |->
      [m_session_key |-> NoKey, m_session |-> NoSession,
       m_stream |-> FALSE, m_waiting |-> FALSE,
       m_waiting_events |-> <<>>, stream_input |-> <<>>]],
   now |-> 0, recycled |-> {}]
SessionPool_new(options) == SessionPool_for(options, Keys)

\* The keys the selectors of the mux filters return.
SelectedKeys == DOMAIN pool.clusters

\* The pool as a callback finds it: nothing recycled yet.
PoolAtEntry == [pool EXCEPT !.recycled = {}]

\* A Session object that does not exist yet.
FreeSessionIds == {s \in SessionIds : ~pool.sessions[s].live}

\* Mux filter m gets an event and has no Stream: it opens one.
MuxOpenStream ==
  /\ \E m \in Muxers, key \in SelectedKeys \ p_gone, mc \in NewSessionMessageCounts,
        pending \in BOOLEAN :
       /\ ~pool.muxers[m].m_stream
       /\ pool.muxers[m].m_session # NoSession
            => key = pool.muxers[m].m_session_key
       /\ \/ FreeSessionIds # {}
          \/ pool.muxers[m].m_session # NoSession
          \/ SessionCluster_alloc_find(pool, key) # NoSession
       /\ LET new == IF FreeSessionIds = {} THEN NoSession
                     ELSE SetMin(FreeSessionIds)
              s == SessionCluster_alloc_find(pool, key)
          IN  /\ (pool.muxers[m].m_session # NoSession \/ s # NoSession)
                   => (mc = SetMin(NewSessionMessageCounts) /\ ~pending)
              /\ (pool.muxers[m].m_session = NoSession /\ s # NoSession)
                   => pool.sessions[s].m_message_count < MaxMessageCount
              /\ pool' = MuxBase_open_stream(
                            PoolAtEntry, m, key, new, mc, pending)
  /\ p_op' = "call"
  /\ UNCHANGED p_gone
  /\ UNCHANGED <<lvars, rvars, qvars, yvars, cvars, svars, bvars>>

\* Mux filter m is given its next event, numbered by arrival: process()
\* opens a stream if there is none and writes the event.
MuxProcess ==
  /\ \E m \in Muxers, key \in SelectedKeys \ p_gone, mc \in NewSessionMessageCounts,
        pending \in BOOLEAN :
       /\ Len(pool.muxers[m].m_waiting_events)
            + Len(pool.muxers[m].stream_input) < MaxMuxEvents
       /\ pool.muxers[m].m_session # NoSession
            => key = pool.muxers[m].m_session_key
       /\ \/ FreeSessionIds # {}
          \/ pool.muxers[m].m_session # NoSession
          \/ SessionCluster_alloc_find(pool, key) # NoSession
       /\ LET new == IF FreeSessionIds = {} THEN NoSession
                     ELSE SetMin(FreeSessionIds)
              s == SessionCluster_alloc_find(pool, key)
              evt == Len(pool.muxers[m].m_waiting_events)
                       + Len(pool.muxers[m].stream_input) + 1
          IN  /\ (pool.muxers[m].m_session # NoSession \/ s # NoSession)
                   => (mc = SetMin(NewSessionMessageCounts) /\ ~pending)
              /\ (pool.muxers[m].m_session = NoSession /\ s # NoSession)
                   => pool.sessions[s].m_message_count < MaxMessageCount
              /\ pool' = MuxBase_write_stream(
                            MuxBase_open_stream(
                              PoolAtEntry, m, key, new, mc, pending),
                            m, evt)
  /\ p_op' = "call"
  /\ UNCHANGED p_gone
  /\ UNCHANGED <<lvars, rvars, qvars, yvars, cvars, svars, bvars>>

\* The pipeline of mux filter m is recycled and resets the filter.
MuxReset ==
  /\ \E m \in Muxers :
       /\ pool.muxers[m].m_session_key # NoKey
       /\ pool' = MuxBase_reset(PoolAtEntry, m)
  /\ p_op' = "call"
  /\ UNCHANGED p_gone
  /\ UNCHANGED <<lvars, rvars, qvars, yvars, cvars, svars, bvars>>

\* The handshake of a pending session completes: set_pending(false).
SessionOpens ==
  /\ \E s \in SessionIds :
       /\ pool.sessions[s].live /\ pool.sessions[s].m_is_pending
       /\ pool' = Session_set_pending(PoolAtEntry, s, FALSE)
  /\ p_op' = "set_pending"
  /\ UNCHANGED p_gone
  /\ UNCHANGED <<lvars, rvars, qvars, yvars, cvars, svars, bvars>>

\* A session's pipeline replies a StreamEnd.
SessionReplyEnd ==
  /\ \E s \in SessionIds :
       /\ pool.sessions[s].live /\ pool.sessions[s].m_pipeline
       /\ ~pool.sessions[s].m_is_closed
       /\ pool' = Session_on_reply_end(PoolAtEntry, s)
  /\ p_op' = "call"
  /\ UNCHANGED p_gone
  /\ UNCHANGED <<lvars, rvars, qvars, yvars, cvars, svars, bvars>>

\* The object that is a weak session key becomes unreachable: no mux filter
\* holds it in m_session_key any more.
WeakPtrGone ==
  /\ \E k \in SelectedKeys \ p_gone :
       /\ pool.options.weak
       /\ pool.clusters[k].exists
       /\ \A m \in Muxers : pool.muxers[m].m_session_key # k
       /\ pool' = SessionCluster_on_weak_ptr_gone(PoolAtEntry, k)
       /\ p_gone' = p_gone \cup {k}
  /\ p_op' = "call"
  /\ UNCHANGED <<lvars, rvars, qvars, yvars, cvars, svars, bvars>>

\* A mux filter is shut down: MuxBase::shutdown() shuts the pool down.
PoolShutdown ==
  /\ ~pool.m_has_shutdown
  /\ pool' = SessionPool_shutdown(PoolAtEntry)
  /\ p_op' = "shutdown"
  /\ UNCHANGED p_gone
  /\ UNCHANGED <<lvars, rvars, qvars, yvars, cvars, svars, bvars>>

\* A second passes; a timer that is due fires first.
ClockTick ==
  /\ pool.now < MaxTime
  /\ ~(pool.m_recycling /\ pool.timer_due <= pool.now)
  /\ pool' = [PoolAtEntry EXCEPT !.now = @ + 1]
  /\ p_op' = "call"
  /\ UNCHANGED p_gone
  /\ UNCHANGED <<lvars, rvars, qvars, yvars, cvars, svars, bvars>>

\* The recycle timer fires.
RecycleTick ==
  /\ pool.m_recycling /\ pool.timer_due <= pool.now
  /\ pool' = SessionPool_on_timer(PoolAtEntry)
  /\ p_op' = "tick"
  /\ UNCHANGED p_gone
  /\ UNCHANGED <<lvars, rvars, qvars, yvars, cvars, svars, bvars>>

PoolNext ==
  \/ MuxOpenStream
  \/ MuxReset
  \/ SessionOpens
  \/ SessionReplyEnd
  \/ WeakPtrGone
  \/ ClockTick
  \/ RecycleTick

\* Mux filters whose events are followed into their streams.
PendingNext ==
  \/ MuxProcess
  \/ MuxReset
  \/ SessionOpens
  \/ SessionReplyEnd
  \/ ClockTick
  \/ RecycleTick

\* Mux filters that select one of several keys.
KeysNext ==
  \/ MuxOpenStream
  \/ MuxReset
  \/ SessionReplyEnd
  \/ ClockTick
  \/ RecycleTick

\* Mux filters that are shut down at some time.
ShutdownNext ==
  \/ MuxOpenStream
  \/ MuxReset
  \/ SessionOpens
  \/ SessionReplyEnd
  \/ PoolShutdown
  \/ ClockTick
  \/ RecycleTick

(***************************************************************************)
(* Configuration and FilterConfigurator (api/configuration.cpp).           *)
(*   lists[i]         the filter list of pipeline layout i: of each filter *)
(*                    whether it is a joint filter and how many            *)
(*                    sub-pipelines were added to it                       *)
(*   made             the pipeline indices handed out so far               *)
(*   configurators[c] FilterConfigurator c: m_filters (NoList for nullptr) *)
(*                    and m_current_joint_filter (NoFilter for nullptr).   *)
(*                    RootConfig is the Configuration; the configurator    *)
(*                    made for indexed pipeline i is configurator i.       *)
(*   stack            the configurators whose builder functions are        *)
(*                    running, innermost last, below them the script       *)
(*   status           "open" while the script runs, "error" after a        *)
(*                    runtime_error, "accepted" after the integrity check  *)
(*   m_exports, m_imports  the variables export() and import() declared    *)
(*   m_context_prototype   the names of the fields of the prototype        *)
(*   prototype_set    the names bind_exports() has set in the prototype,   *)
(*                    in the order of the calls                            *)
(*   worker           the (namespace, name) pairs the worker has exports   *)
(*                    for                                                  *)
(*   imports          the names bind_imports() has added to the imports    *)
(*   bound            which of "exports" and "imports" have been bound     *)
(***************************************************************************)
LayoutIds == 1 .. MaxLayouts
RootConfig == 0
NoList == 0
NoFilter == [list |-> NoList, pos |-> 0]

\* throw std::runtime_error(...)
Configuration_throw(C) == [C EXCEPT !.status = "error"]

\* FilterConfigurator::append_filter(filter)
FilterConfigurator_append_filter(C, c, joint) ==
  LET list == C.configurators[c].m_filters
  IN  IF list = NoList
        THEN Configuration_throw(C)
        ELSE IF C.configurators[c].m_current_joint_filter # NoFilter
               THEN Configuration_throw(C)
               ELSE [C EXCEPT !.lists[list] =
                        Append(@, [joint |-> joint, sub_pipelines |-> 0])]

\* FilterConfigurator::require_sub_pipeline(filter): the filter is the one
\* append_filter() has just put at the end of m_filters.
FilterConfigurator_require_sub_pipeline(C, c) ==
  LET list == C.configurators[c].m_filters
  IN  [C EXCEPT !.configurators[c].m_current_joint_filter =
                   [list |-> list, pos |-> Len(C.lists[list])]]

\* A method of a joint filter, such as FilterConfigurator::demux().
FilterConfigurator_joint(C, c) ==
  LET C1 == FilterConfigurator_append_filter(C, c, TRUE)
  IN  IF C1.status = "error"
        THEN C1
        ELSE FilterConfigurator_require_sub_pipeline(C1, c)

\* Filter::add_sub_pipeline() on m_current_joint_filter, which is then set
\* to nullptr.
FilterConfigurator_add_sub_pipeline(C, c) ==
  LET f == C.configurators[c].m_current_joint_filter
  IN  [C EXCEPT !.lists[f.list][f.pos].sub_pipelines = @ + 1,
                !.configurators[c].m_current_joint_filter = NoFilter]

\* FilterConfigurator::to(layout_name)
FilterConfigurator_to(C, c) ==
  IF C.configurators[c].m_current_joint_filter = NoFilter
    THEN Configuration_throw(C)
    ELSE FilterConfigurator_add_sub_pipeline(C, c)

\* Configuration::new_indexed_pipeline(name, index)
Configuration_new_indexed_pipeline(C) ==
  [C EXCEPT !.made = @ + 1,
            !.configurators[C.made + 1] =
               [m_filters |-> C.made + 1, m_current_joint_filter |-> NoFilter]]

\* FilterConfigurator::to(name, cb) up to the call of cb in sub_pipeline():
\* the builder function starts to run with the new configurator.
FilterConfigurator_to_cb(C, c) ==
  IF C.configurators[c].m_current_joint_filter = NoFilter
    THEN Configuration_throw(C)
    ELSE [Configuration_new_indexed_pipeline(C)
            EXCEPT !.stack = Append(@, C.made + 1)]

\* FilterConfigurator::to(name, cb) from the return of cb: c is the
\* configurator that to() was called on.
FilterConfigurator_to_return(C, c) ==
  FilterConfigurator_add_sub_pipeline(
    [C EXCEPT !.stack = SubSeq(@, 1, Len(@) - 1)], c)

\* FilterConfigurator::check_integrity()
FilterConfigurator_check_integrity(C, c) ==
  IF C.configurators[c].m_current_joint_filter # NoFilter
    THEN Configuration_throw(C)
    ELSE C

\* set_filter_list(filters): the filters that follow go to this list.
FilterConfigurator_set_filter_list(C, c, list) ==
  [C EXCEPT !.configurators[c].m_filters = list]

\* Configuration::listen(port, options), read(pathname), task(when) and
\* pipeline(name): a new pipeline layout, whose filter list becomes the
\* current one.
Configuration_listen(C) ==
  FilterConfigurator_set_filter_list(
    [C EXCEPT !.made = @ + 1], RootConfig, C.made + 1)

\* The integrity check at bind time, on the Configuration.
Configuration_bind(C) ==
  LET C1 == FilterConfigurator_check_integrity(C, RootConfig)
  IN  IF C1.status = "error" THEN C1 ELSE [C1 EXCEPT !.status = "accepted"]

\* Configuration::Configuration()
Configuration_new ==
  [lists |-> [i \in LayoutIds |-> <<>>],
   made |-> 0,
   configurators |-> [c \in {RootConfig} \cup LayoutIds |->
      [m_filters |-> NoList, m_current_joint_filter |-> NoFilter]],
   stack |-> <<RootConfig>>,
   status |-> "open",
   m_exports |-> <<>>, m_imports |-> <<>>,
   m_context_prototype |-> {}, prototype_set |-> <<>>,
   worker |-> {}, imports |-> <<>>, bound |-> {}]

\* The configurator the running script or builder function calls.
CurrentConfig == config.stack[Len(config.stack)]

\* The filters appended so far.
RECURSIVE FilterCount(_, _)
FilterCount(C, i) ==
  IF i = 0 THEN 0 ELSE Len(C.lists[i]) + FilterCount(C, i - 1)

\* The script calls listen(), read(), task() or pipeline().
ConfListen ==
  /\ config.status = "open" /\ config.stack = <<RootConfig>>
  /\ config.made < MaxLayouts
  /\ config' = Configuration_listen(config)
  /\ c_op' = "listen"
  /\ UNCHANGED <<lvars, rvars, qvars, pvars, yvars, svars, bvars>>

\* The script calls the method of a filter that owns no sub-pipeline.
ConfAppend ==
  /\ config.status = "open"
  /\ FilterCount(config, MaxLayouts) < MaxFilters
  /\ config' = FilterConfigurator_append_filter(config, CurrentConfig, FALSE)
  /\ c_op' = "append"
  /\ UNCHANGED <<lvars, rvars, qvars, pvars, yvars, svars, bvars>>

\* The script calls the method of a joint filter.
ConfAppendJoint ==
  /\ config.status = "open"
  /\ FilterCount(config, MaxLayouts) < MaxFilters
  /\ config' = FilterConfigurator_joint(config, CurrentConfig)
  /\ c_op' = "append"
  /\ UNCHANGED <<lvars, rvars, qvars, pvars, yvars, svars, bvars>>

\* The script calls to() with the name of a layout.
ConfTo ==
  /\ config.status = "open"
  /\ config' = FilterConfigurator_to(config, CurrentConfig)
  /\ c_op' = "to"
  /\ UNCHANGED <<lvars, rvars, qvars, pvars, yvars, svars, bvars>>

\* The script calls to() with a builder function, which starts to run.
ConfToBuilder ==
  /\ config.status = "open"
  /\ config.made < MaxLayouts
  /\ config' = FilterConfigurator_to_cb(config, CurrentConfig)
  /\ c_op' = "to"
  /\ UNCHANGED <<lvars, rvars, qvars, pvars, yvars, svars, bvars>>

\* A builder function returns to the to() that called it.
ConfBuilderReturn ==
  /\ config.status = "open"
  /\ Len(config.stack) > 1
  /\ config' = FilterConfigurator_to_return(
                  config, config.stack[Len(config.stack) - 1])
  /\ c_op' = "return"
  /\ UNCHANGED <<lvars, rvars, qvars, pvars, yvars, svars, bvars>>

\* The script has ended and the configuration is bound.
ConfBind ==
  /\ config.status = "open" /\ config.stack = <<RootConfig>>
  /\ config' = Configuration_bind(config)
  /\ c_op' = "bind"
  /\ UNCHANGED <<lvars, rvars, qvars, pvars, yvars, svars, bvars>>

\* Names of variables and of namespaces; the empty string is one of them.
VariableNames == {"", "x", "y"}
Namespaces == {"", "n1", "n2"}
ImportValues ==
  {[is_string |-> TRUE, s |-> ns] : ns \in Namespaces}
    \cup {[is_string |-> FALSE, s |-> ""]}

\* The exports other modules may have bound in the worker before.
OtherExports == {{}, {[ns |-> "n2", name |-> "y"]}}

\* Configuration::add_export(ns, variables) with an object of one variable
Configuration_add_export(C, ns, k) ==
  IF ns = ""
    THEN Configuration_throw(C)
    ELSE IF k = ""
           THEN Configuration_throw(C)
           ELSE [C EXCEPT !.m_exports = Append(@, [ns |-> ns, name |-> k])]

\* Configuration::add_import(variables) with an object of one variable
Configuration_add_import(C, k, v) ==
  IF k = ""
    THEN Configuration_throw(C)
    ELSE IF v.is_string
           THEN IF v.s = ""
                  THEN Configuration_throw(C)
                  ELSE [C EXCEPT !.m_imports =
                           Append(@, [ns |-> v.s, name |-> k,
                                      original_name |-> k])]
           ELSE Configuration_throw(C)

\* Worker::add_export(ns, name, module)
Worker_add_export(C, ns, name) ==
  [C EXCEPT !.worker = @ \cup {[ns |-> ns, name |-> name]}]

\* Worker::get_export(ns, name): whether there is such an export.
Worker_get_export(C, ns, name) == [ns |-> ns, name |-> name] \in C.worker

RECURSIVE Configuration_bind_exports_unchecked(_, _)
RECURSIVE Configuration_bind_exports(_, _)
\* A faulty bind_exports(): the prototype is not asked for the name.
Configuration_bind_exports_unchecked(C, list) ==
  IF list = <<>>
    THEN C
    ELSE LET exp == Head(list)
         IN  Configuration_bind_exports_unchecked(
               Worker_add_export(
                 [C EXCEPT !.m_context_prototype = @ \cup {exp.name},
                           !.prototype_set = Append(@, exp.name)],
                 exp.ns, exp.name),
               Tail(list))

\* Configuration::bind_exports(worker, module), from the exports in list on
Configuration_bind_exports(C, list) ==
  IF list = <<>>
    THEN C
    ELSE LET exp == Head(list)
         IN  IF exp.name \in C.m_context_prototype
               THEN Configuration_throw(C)
               ELSE Configuration_bind_exports(
                      Worker_add_export(
                        [C EXCEPT !.m_context_prototype = @ \cup {exp.name},
                                  !.prototype_set = Append(@, exp.name)],
                        exp.ns, exp.name),
                      Tail(list))

\* Configuration::bind_imports(worker, module, imports), from the imports
\* in list on
RECURSIVE Configuration_bind_imports(_, _)
Configuration_bind_imports(C, list) ==
  IF list = <<>>
    THEN C
    ELSE LET imp == Head(list)
         IN  IF ~Worker_get_export(C, imp.ns, imp.original_name)
               THEN Configuration_throw(C)
               ELSE Configuration_bind_imports(
                      [C EXCEPT !.imports = Append(@, imp.name)],
                      Tail(list))

\* The script calls export(ns, {k: value}).
ConfExport ==
  /\ config.status = "open" /\ config.bound = {}
  /\ Len(config.m_exports) < MaxExports
  /\ \E ns \in Namespaces, k \in VariableNames :
       config' = Configuration_add_export(config, ns, k)
  /\ c_op' = "export"
  /\ UNCHANGED <<lvars, rvars, qvars, pvars, yvars, svars, bvars>>

\* The script calls import({k: v}).
ConfImport ==
  /\ config.status = "open" /\ config.bound = {}
  /\ Len(config.m_imports) < MaxImports
  /\ \E k \in VariableNames, v \in ImportValues :
       config' = Configuration_add_import(config, k, v)
  /\ c_op' = "import"
  /\ UNCHANGED <<lvars, rvars, qvars, pvars, yvars, svars, bvars>>

\* The worker binds the exports of the module.
ConfBindExports ==
  /\ config.status = "open" /\ "exports" \notin config.bound
  /\ config' = Configuration_bind_exports(
                  [config EXCEPT !.bound = @ \cup {"exports"}],
                  config.m_exports)
  /\ c_op' = "bind_exports"
  /\ UNCHANGED <<lvars, rvars, qvars, pvars, yvars, svars, bvars>>

\* The worker binds the imports of the module.
ConfBindImports ==
  /\ config.status = "open" /\ "imports" \notin config.bound
  /\ config' = Configuration_bind_imports(
                  [config EXCEPT !.bound = @ \cup {"imports"}],
                  config.m_imports)
  /\ c_op' = "bind_imports"
  /\ UNCHANGED <<lvars, rvars, qvars, pvars, yvars, svars, bvars>>

BindNext ==
  \/ ConfExport
  \/ ConfImport
  \/ ConfBindExports
  \/ ConfBindImports

ConfigNext ==
  \/ ConfListen
  \/ ConfAppend
  \/ ConfAppendJoint
  \/ ConfTo
  \/ ConfToBuilder
  \/ ConfBuilderReturn
  \/ ConfBind

(***************************************************************************)
(* stats::Metric, Counter and Histogram (api/stats.cpp).                   *)
(*   kind           "Counter" or "Histogram", the class of the metric      *)
(*   m_name         the name of the metric                                 *)
(*   m_label_names  the label names the root metric was made with          *)
(*   nodes[path]    the metric reached from the root through m_subs by the *)
(*                  label values of path: exists, m_has_value, m_value,    *)
(*                  m_percentile (FALSE for a null pointer), counts (the   *)
(*                  count of each bucket) and m_labels                     *)
(*   out            the tokens to_prometheus() has pushed to its output    *)
(*   crashed        the process has died                                   *)
(***************************************************************************)
LabelValues == <<"a", "b">>
LabelNameList == [i \in 1 .. NLabelNames |-> "l" \o ToString(i)]
Buckets == 1 .. NBuckets
MetricPathsOf(n) == UNION {[1 .. k -> {"a", "b"}] : k \in 0 .. n}
MetricPaths == MetricPathsOf(NLabelNames)
Garbage == "?"

BlankMetric ==
  [exists |-> FALSE, m_has_value |-> FALSE, m_value |-> 0,
   m_percentile |-> FALSE, counts |-> <<>>, m_labels |-> <<>>]

\* Counter::Counter(name, label_names) and Histogram::Histogram(name,
\* buckets, label_names): the root metric.
Metric_new(kind, label_names) ==
  [kind |-> kind, m_name |-> "m", m_label_names |-> label_names,
   nodes |-> [p \in MetricPaths |->
                IF p = <<>>
                  THEN [BlankMetric EXCEPT
                          !.exists = TRUE,
                          !.m_percentile = (kind = "Histogram"),
                          !.counts = IF kind = "Histogram"
                                       THEN [b \in Buckets |-> 0] ELSE <<>>,
                          !.m_labels = IF kind = "Histogram"
                                         THEN [b \in Buckets |-> ToString(b)]
                                         ELSE <<>>]
                  ELSE BlankMetric],
   out |-> <<>>, crashed |-> FALSE]

\* Counter::Counter(parent, labels) and Histogram::Histogram(parent,
\* labels): m_percentile and m_labels are not set.
Metric_new_sub == [BlankMetric EXCEPT !.exists = TRUE]

\* Metric::get_sub(labels) for the sub-metric at path
Metric_get_sub(S, path) ==
  IF S.nodes[path].exists
    THEN S
    ELSE [S EXCEPT !.nodes[path] = Metric_new_sub]

\* Metric::with_labels(labels, count) on the root: the metrics along the
\* path are made; the result is the path of the metric returned.
RECURSIVE Metric_with_labels_from(_, _, _)
Metric_with_labels_from(S, labels, i) ==
  IF i > Len(labels)
    THEN S
    ELSE Metric_with_labels_from(
           Metric_get_sub(S, SubSeq(labels, 1, i)), labels, i + 1)
Metric_with_labels(S, labels) ==
  Metric_with_labels_from(S, labels, 1)

\* Counter::increase(n) on the metric at path
Counter_increase(S, path, n) ==
  [S EXCEPT !.nodes[path].m_has_value = TRUE,
            !.nodes[path].m_value = @ + n]

\* Histogram::observe(n) on the metric at path, n falling into bucket b.
\* m_percentile->observe() through a null m_percentile is undefined: the
\* process dies, or it goes on (survives is the outcome).
Histogram_observe(S, path, b, survives) ==
  LET S1 == [S EXCEPT !.nodes[path].m_has_value = TRUE]
  IN  IF S1.nodes[path].m_percentile
        THEN [S1 EXCEPT !.nodes[path].counts[b] = @ + 1]
        ELSE IF survives THEN S1 ELSE [S1 EXCEPT !.crashed = TRUE]

\* The callback of to_prometheus(): one line of dim labels and the number.
RECURSIVE Metric_push_labels(_, _, _)
Metric_push_labels(A, i, dim) ==
  IF i > dim
    THEN A
    ELSE Metric_push_labels(
           [A EXCEPT !.out = @ \o
              <<IF i > 1 THEN "," ELSE "{",
                IF A.names[i] # "" THEN A.names[i] ELSE "le",
                "=", "\"", A.values[i], "\"">>],
           i + 1, dim)
Metric_push_line(A, name, dim, x) ==
  LET A1 == [A EXCEPT !.out = Append(@, name)]
      A2 == IF dim > 0
              THEN [Metric_push_labels(A1, 1, dim) EXCEPT
                      !.out = Append(@, "}")]
              ELSE A1
  IN  [A2 EXCEPT !.out = @ \o <<" ", ToString(x), "\n">>]

\* Histogram::dump(out) on the metric at path, called by dump_tree():
\* one call of out per bucket of m_percentile.  Through a null
\* m_percentile the call is undefined: the process dies, or it makes
\* some number of calls (ub.lines) with what lies where m_labels would
\* be.
RECURSIVE Histogram_dump_from(_, _, _, _)
Histogram_dump_from(S, path, A, b) ==
  IF b > NBuckets
    THEN A
    ELSE LET i == Len(path)
             A1 == [A EXCEPT !.names[i + 1] = "",
                             !.values[i + 1] = S.nodes[path].m_labels[b]]
         IN  Histogram_dump_from(
               S, path,
               Metric_push_line(A1, S.m_name, i + 1, S.nodes[path].counts[b]),
               b + 1)
RECURSIVE Histogram_dump_garbage(_, _, _, _)
Histogram_dump_garbage(S, path, A, n) ==
  IF n = 0
    THEN A
    ELSE LET i == Len(path)
             A1 == [A EXCEPT !.names[i + 1] = "", !.values[i + 1] = Garbage]
         IN  Histogram_dump_garbage(
               S, path, Metric_push_line(A1, S.m_name, i + 1, 0), n - 1)
Histogram_dump(S, path, A, ub) ==
  IF S.nodes[path].m_percentile
    THEN Histogram_dump_from(S, path, A, 1)
    ELSE IF ub.survives
           THEN Histogram_dump_garbage(S, path, A, ub.lines)
           ELSE [A EXCEPT !.crashed = TRUE]

\* Counter::dump(out): one call of out, without a label of its own.
Counter_dump(S, path, A) ==
  Metric_push_line(A, S.m_name, Len(path), S.nodes[path].m_value)

RECURSIVE Metric_dump_tree(_, _, _, _)
RECURSIVE Metric_dump_subs(_, _, _, _, _)

\* Metric::dump_tree(label_names, label_values, out) on the metric at
\* path; A holds the two arrays and the output.
Metric_dump_tree(S, path, A, ub) ==
  LET i == Len(path)
      A1 == IF i > 0
              THEN [A EXCEPT !.names[i] = S.m_label_names[i],
                             !.values[i] = path[i]]
              ELSE A
      A2 == IF S.nodes[path].m_has_value
              THEN IF S.kind = "Histogram"
                     THEN Histogram_dump(S, path, A1, ub)
                     ELSE Counter_dump(S, path, A1)
              ELSE A1
  IN  Metric_dump_subs(S, path, A2, ub, 1)

\* The loop of dump_tree() over m_subs, from the k-th label value on.
Metric_dump_subs(S, path, A, ub, k) ==
  IF k > Len(LabelValues) \/ Len(path) >= Len(S.m_label_names)
    THEN A
    ELSE LET sub == Append(path, LabelValues[k])
         IN  Metric_dump_subs(
               S, path,
               IF S.nodes[sub].exists /\ ~A.crashed
                 THEN Metric_dump_tree(S, sub, A, ub)
                 ELSE A,
               ub, k + 1)

\* Metric::to_prometheus(out)
Metric_to_prometheus(S, ub) ==
  LET max_dim == Len(S.m_label_names) + 1
      A == Metric_dump_tree(
             S, <<>>,
             [names |-> [i \in 1 .. max_dim |-> Garbage],
              values |-> [i \in 1 .. max_dim |-> Garbage],
              out |-> <<>>, crashed |-> FALSE],
             ub)
  IN  [S EXCEPT !.out = A.out, !.crashed = A.crashed]

\* The label values a script can give to withLabels() of the metric.
LabelPaths == {p \in MetricPaths : Len(p) <= Len(stats.m_label_names)}

\* The script calls increase() on the counter or on withLabels(...) of it.
StatsIncrease ==
  /\ ~stats.crashed /\ stats.kind = "Counter"
  /\ \E path \in LabelPaths :
       /\ stats.nodes[path].m_value < MaxCount
       /\ stats' = Counter_increase(Metric_with_labels(stats, path), path, 1)
  /\ s_op' = "increase"
  /\ UNCHANGED <<lvars, rvars, qvars, pvars, yvars, cvars, bvars>>

\* The script calls observe() on the histogram or on withLabels(...) of it.
StatsObserve ==
  /\ ~stats.crashed /\ stats.kind = "Histogram"
  /\ \E path \in LabelPaths, b \in Buckets, survives \in BOOLEAN :
       /\ stats.nodes[path].m_percentile
            => (survives /\ stats.nodes[path].counts[b] < MaxCount)
       /\ stats' = Histogram_observe(
                      Metric_with_labels(stats, path), path, b, survives)
  /\ s_op' = "observe"
  /\ UNCHANGED <<lvars, rvars, qvars, pvars, yvars, cvars, bvars>>

\* The metrics are written in the Prometheus text format.
StatsPrometheus ==
  /\ ~stats.crashed
  /\ \E survives \in BOOLEAN, lines \in 0 .. NBuckets :
       stats' = Metric_to_prometheus(
                  stats, [survives |-> survives, lines |-> lines])
  /\ s_op' = "to_prometheus"
  /\ UNCHANGED <<lvars, rvars, qvars, pvars, yvars, cvars, bvars>>

StatsNext ==
  \/ StatsIncrease
  \/ StatsObserve
  \/ StatsPrometheus

\* Each specification runs one component; the others stay as constructed.
(***************************************************************************)
(* PipelineDef and Pipeline (pipeline.cpp).                                *)
(*   m_pool        the head of the free list, NoPipeline for nullptr       *)
(*   m_pipelines   the list of live pipelines                              *)
(*   m_allocated   the number of Pipeline objects constructed              *)
(*   refs          retain() minus release() calls made by alloc and free   *)
(*   pipelines[p]  Pipeline p: m_next_free, m_context (NoContext for       *)
(*                 nullptr), chained (its output is chained to an input)   *)
(*                 and filters_reset (its filters are as reset() leaves    *)
(*                 them); m_filters, its filters, the clones of the        *)
(*                 layout's filters: used tells that the filter has        *)
(*                 handled an event since its last reset()                 *)
(*   clones        for each filter of the layout, the calls of its clone() *)
(***************************************************************************)
PipelineIds == 1 .. MaxPipelines
Contexts == 1 .. NContexts
NoContext == 0

FilterTemplates == 1 .. NFilterTemplates

\* A faulty reset(): the filters are left as they are.
Pipeline_reset_keep_filters(Y, p) ==
  [Y EXCEPT !.pipelines[p].chained = FALSE,
            !.pipelines[p].m_context = NoContext]

\* Pipeline::reset()
Pipeline_reset(Y, p) ==
  [Y EXCEPT !.pipelines[p].chained = FALSE,
            !.pipelines[p].filters_reset = TRUE,
            !.pipelines[p].m_filters =
               [t \in FilterTemplates |-> [used |-> FALSE]],
            !.pipelines[p].m_context = NoContext]

\* Pipeline::Pipeline(def): the filters are cloned, chained and reset.
Pipeline_new ==
  [m_next_free |-> NoPipeline, m_context |-> NoContext, chained |-> FALSE,
   filters_reset |-> TRUE,
   m_filters |-> [t \in FilterTemplates |-> [used |-> FALSE]]]

\* Pipeline::chain(input)
Pipeline_chain(Y, p) == [Y EXCEPT !.pipelines[p].chained = TRUE]

\* Pipeline::on_event(evt): the event goes to the first filter, and on
\* through the filters up to filter k, which keeps it.
Pipeline_on_event_upto(Y, p, k) ==
  [Y EXCEPT !.pipelines[p].filters_reset = FALSE,
            !.pipelines[p].m_filters =
               [t \in FilterTemplates |->
                  [used |-> @[t].used \/ t <= k]]]

\* Pipeline::on_event(evt): the event goes through all the filters.
Pipeline_on_event(Y, p) == Pipeline_on_event_upto(Y, p, NFilterTemplates)

\* A faulty alloc(): a Pipeline is constructed although the pool has one.
PipelineDef_alloc_always_new(Y, ctx) ==
  LET p == Y.m_allocated + 1
  IN  [Y EXCEPT !.refs = @ + 1,
                !.pipelines[p] = [Pipeline_new EXCEPT !.m_context = ctx],
                !.m_allocated = @ + 1,
                !.m_pipelines = Append(@, p)]

\* PipelineDef::alloc(ctx)
PipelineDef_alloc(Y, ctx) ==
  LET Y1 == [Y EXCEPT !.refs = @ + 1]
      p == IF Y1.m_pool # NoPipeline THEN Y1.m_pool ELSE Y1.m_allocated + 1
      Y2 == IF Y1.m_pool # NoPipeline
              THEN [Y1 EXCEPT !.m_pool = Y1.pipelines[p].m_next_free]
              ELSE [Y1 EXCEPT !.pipelines[p] = Pipeline_new,
                              !.clones = [t \in FilterTemplates |-> @[t] + 1],
                              !.m_allocated = @ + 1]
  IN  [Y2 EXCEPT !.pipelines[p].m_context = ctx,
                 !.m_pipelines = Append(@, p)]

\* A faulty free(): the pipeline stays on the list of live pipelines.
PipelineDef_free_keep(Y, p) ==
  [Y EXCEPT !.pipelines[p].m_next_free = Y.m_pool,
            !.m_pool = p,
            !.refs = @ - 1]

\* PipelineDef::free(pipeline)
PipelineDef_free(Y, p) ==
  [Y EXCEPT !.m_pipelines = List_remove(@, p),
            !.pipelines[p].m_next_free = Y.m_pool,
            !.m_pool = p,
            !.refs = @ - 1]

\* Pipeline::on_recycle()
Pipeline_on_recycle(Y, p) == PipelineDef_free(Pipeline_reset(Y, p), p)

\* A PipelineDef right after its constructor.
PipelineDef_new ==
  [m_pool |-> NoPipeline, m_pipelines |-> <<>>, m_allocated |-> 0,
   refs |-> 0, pipelines |-> [p \in PipelineIds |-> Pipeline_new],
   clones |-> [t \in FilterTemplates |-> 0]]

\* The live pipelines.
LivePipelines == {pipeline_def.m_pipelines[i] : i \in 1 .. Len(pipeline_def.m_pipelines)}

\* A pipeline is allocated for a context.
PipelineAlloc ==
  /\ \E ctx \in Contexts :
       /\ pipeline_def.m_pool # NoPipeline \/ pipeline_def.m_allocated < MaxPipelines
       /\ pipeline_def' = PipelineDef_alloc(pipeline_def, ctx)
  /\ y_op' = "alloc"
  /\ UNCHANGED <<lvars, rvars, qvars, pvars, cvars, svars, bvars>>

\* The owner of a live pipeline chains its output.
PipelineChain ==
  /\ \E p \in LivePipelines :
       /\ ~pipeline_def.pipelines[p].chained
       /\ pipeline_def' = Pipeline_chain(pipeline_def, p)
  /\ y_op' = "chain"
  /\ UNCHANGED <<lvars, rvars, qvars, pvars, cvars, svars, bvars>>

\* A live pipeline gets an event.
PipelineEvent ==
  /\ \E p \in LivePipelines :
       /\ pipeline_def.pipelines[p].filters_reset
       /\ pipeline_def' = Pipeline_on_event(pipeline_def, p)
  /\ y_op' = "on_event"
  /\ UNCHANGED <<lvars, rvars, qvars, pvars, cvars, svars, bvars>>

\* The last reference to a live pipeline is released: on_recycle().
PipelineRecycle ==
  /\ \E p \in LivePipelines :
       pipeline_def' = Pipeline_on_recycle(pipeline_def, p)
  /\ y_op' = "on_recycle"
  /\ UNCHANGED <<lvars, rvars, qvars, pvars, cvars, svars, bvars>>

\* A live pipeline gets an event, which one of its filters keeps.
PipelineFilterEvent ==
  /\ \E p \in LivePipelines, k \in FilterTemplates :
       /\ ~pipeline_def.pipelines[p].m_filters[k].used
       /\ pipeline_def' = Pipeline_on_event_upto(pipeline_def, p, k)
  /\ y_op' = "on_event"
  /\ UNCHANGED <<lvars, rvars, qvars, pvars, cvars, svars, bvars>>

\* Pipelines whose events stop at any of their filters.
FiltersNext ==
  \/ PipelineAlloc
  \/ PipelineChain
  \/ PipelineFilterEvent
  \/ PipelineRecycle

PipelineNext ==
  \/ PipelineAlloc
  \/ PipelineChain
  \/ PipelineEvent
  \/ PipelineRecycle

(***************************************************************************)
(* Buffer (filters/buffer.cpp).                                            *)
(*   m_buffer             the bytes held in memory                         *)
(*   m_file_w, m_file_r   a file is open for writing, for reading          *)
(*   m_resolved_filename  the filename has been evaluated                  *)
(*   file_size            the bytes written to the file                    *)
(*   output               the bytes passed downstream since the last reset *)
(*   crashed              the process has ended on a null pointer          *)
(***************************************************************************)
Buffer_new ==
  [m_buffer |-> 0, m_file_w |-> FALSE, m_file_r |-> FALSE,
   m_resolved_filename |-> FALSE, file_size |-> 0, output |-> 0,
   crashed |-> FALSE]

\* Buffer::reset(): the files are closed and the filename is forgotten.
Buffer_reset(B) ==
  [B EXCEPT !.m_file_w = FALSE, !.m_file_r = FALSE,
            !.m_resolved_filename = FALSE]

\* Buffer::process(evt) of a Data of n bytes; ok tells whether the filename
\* expression evaluates.  File::write leaves its argument as it is.
Buffer_process_data(B, n, ok) ==
  IF n = 0
    THEN B
    ELSE IF B.m_buffer < BufferThreshold
           THEN [B EXCEPT !.m_buffer = @ + n, !.output = @ + n]
           ELSE LET B1 == IF ~B.m_resolved_filename
                            THEN IF ok
                                   THEN [B EXCEPT
                                           !.m_resolved_filename = TRUE,
                                           !.m_file_w = TRUE,
                                           !.file_size = B.m_buffer]
                                   ELSE B
                            ELSE B
                IN  IF ~B.m_resolved_filename /\ ~ok
                      THEN B
                      ELSE IF B1.m_file_w
                             THEN [B1 EXCEPT !.file_size = @ + n]
                             ELSE B1

\* Buffer::process(evt) of a StreamEnd: the file is closed for writing and
\* opened for reading.  Without a resolved filename the null pointer
\* m_resolved_filename is dereferenced: the process crashes (ub = "crash")
\* or goes on with a file of some name (ub = "garbage").
Buffer_process_end(B, ub) ==
  LET B1 == [B EXCEPT !.m_file_w = FALSE]
  IN  IF ~B1.m_file_r
        THEN IF B1.m_resolved_filename \/ ub = "garbage"
               THEN [B1 EXCEPT !.m_file_r = TRUE]
               ELSE [B1 EXCEPT !.crashed = TRUE]
        ELSE B1

\* The Buffer filter is given a Data event.
BufferData ==
  /\ ~file_buffer.crashed
  /\ \E n \in 0 .. MaxChunk, ok \in BOOLEAN :
       /\ file_buffer.file_size + n <= MaxFileBytes
       /\ file_buffer' = Buffer_process_data(file_buffer, n, ok)
  /\ b_op' = "process"
  /\ UNCHANGED <<lvars, rvars, qvars, pvars, yvars, cvars, svars>>

\* The Buffer filter is given a StreamEnd.
BufferStreamEnd ==
  /\ ~file_buffer.crashed
  /\ \E ub \in {"crash", "garbage"} :
       file_buffer' = Buffer_process_end(file_buffer, ub)
  /\ b_op' = "end"
  /\ UNCHANGED <<lvars, rvars, qvars, pvars, yvars, cvars, svars>>

\* The pipeline of the Buffer filter is recycled: reset().
BufferReset ==
  /\ ~file_buffer.crashed
  /\ b_op # "init"
  /\ file_buffer' = [Buffer_reset(file_buffer) EXCEPT !.output = 0, !.file_size = 0]
  /\ b_op' = "reset"
  /\ UNCHANGED <<lvars, rvars, qvars, pvars, yvars, cvars, svars>>

BufferNext ==
  \/ BufferData
  \/ BufferStreamEnd
  \/ BufferReset

(***************************************************************************)
(* One specification for each component: the component starts as its       *)
(* constructor leaves it and runs its callbacks, the other components stay *)
(* idle.                                                                   *)
(***************************************************************************)
DefaultOptions ==
  [max_idle |-> 2, max_queue |-> 0, max_messages |-> 0, weak |-> FALSE]

ListenerInit ==
  /\ \E n \in MaxConnValues : listener = Listener_new(n)
  /\ l_op = "init"
  /\ replay = Replay_new
  /\ r_op = "init"
  /\ r_processed = <<>>
  /\ r_emitted = <<>>
  /\ muxer = QueueMuxer_new
  /\ q_read = 0
  /\ q_echoed = {}
  /\ q_ended = <<>>
  /\ q_op = "init"
  /\ q_calls = NoCalls
  /\ q_last = [stream |-> 0, evt |-> NoEvent]
  /\ pool = SessionPool_new(DefaultOptions)
  /\ p_gone = {}
  /\ p_op = "init"
  /\ pipeline_def = PipelineDef_new
  /\ y_op = "init"
  /\ config = Configuration_new
  /\ c_op = "init"
  /\ stats = Metric_new("Counter", <<>>)
  /\ s_op = "init"
  /\ file_buffer = Buffer_new
  /\ b_op = "init"

ReplayInit ==
  /\ listener = Listener_new(0 - 1)
  /\ l_op = "init"
  /\ replay = Replay_new
  /\ r_op = "init"
  /\ r_processed = <<>>
  /\ r_emitted = <<>>
  /\ muxer = QueueMuxer_new
  /\ q_read = 0
  /\ q_echoed = {}
  /\ q_ended = <<>>
  /\ q_op = "init"
  /\ q_calls = NoCalls
  /\ q_last = [stream |-> 0, evt |-> NoEvent]
  /\ pool = SessionPool_new(DefaultOptions)
  /\ p_gone = {}
  /\ p_op = "init"
  /\ pipeline_def = PipelineDef_new
  /\ y_op = "init"
  /\ config = Configuration_new
  /\ c_op = "init"
  /\ stats = Metric_new("Counter", <<>>)
  /\ s_op = "init"
  /\ file_buffer = Buffer_new
  /\ b_op = "init"

QueueInit ==
  /\ listener = Listener_new(0 - 1)
  /\ l_op = "init"
  /\ replay = Replay_new
  /\ r_op = "init"
  /\ r_processed = <<>>
  /\ r_emitted = <<>>
  /\ muxer = QueueMuxer_new
  /\ q_read = 0
  /\ q_echoed = {}
  /\ q_ended = <<>>
  /\ q_op = "init"
  /\ q_calls = NoCalls
  /\ q_last = [stream |-> 0, evt |-> NoEvent]
  /\ pool = SessionPool_new(DefaultOptions)
  /\ p_gone = {}
  /\ p_op = "init"
  /\ pipeline_def = PipelineDef_new
  /\ y_op = "init"
  /\ config = Configuration_new
  /\ c_op = "init"
  /\ stats = Metric_new("Counter", <<>>)
  /\ s_op = "init"
  /\ file_buffer = Buffer_new
  /\ b_op = "init"

\* A QueueMuxer session that may be pending.
OneWayInit ==
  /\ listener = Listener_new(0 - 1)
  /\ l_op = "init"
  /\ replay = Replay_new
  /\ r_op = "init"
  /\ r_processed = <<>>
  /\ r_emitted = <<>>
  /\ \E pending \in BOOLEAN :
       muxer = [QueueMuxer_new EXCEPT !.m_is_pending = pending]
  /\ q_read = 0
  /\ q_echoed = {}
  /\ q_ended = <<>>
  /\ q_op = "init"
  /\ q_calls = NoCalls
  /\ q_last = [stream |-> 0, evt |-> NoEvent]
  /\ pool = SessionPool_new(DefaultOptions)
  /\ p_gone = {}
  /\ p_op = "init"
  /\ pipeline_def = PipelineDef_new
  /\ y_op = "init"
  /\ config = Configuration_new
  /\ c_op = "init"
  /\ stats = Metric_new("Counter", <<>>)
  /\ s_op = "init"
  /\ file_buffer = Buffer_new
  /\ b_op = "init"

PoolInit ==
  /\ listener = Listener_new(0 - 1)
  /\ l_op = "init"
  /\ replay = Replay_new
  /\ r_op = "init"
  /\ r_processed = <<>>
  /\ r_emitted = <<>>
  /\ muxer = QueueMuxer_new
  /\ q_read = 0
  /\ q_echoed = {}
  /\ q_ended = <<>>
  /\ q_op = "init"
  /\ q_calls = NoCalls
  /\ q_last = [stream |-> 0, evt |-> NoEvent]
  /\ \E options \in ClusterOptions : pool = SessionPool_new(options)
  /\ p_gone = {}
  /\ p_op = "init"
  /\ pipeline_def = PipelineDef_new
  /\ y_op = "init"
  /\ config = Configuration_new
  /\ c_op = "init"
  /\ stats = Metric_new("Counter", <<>>)
  /\ s_op = "init"
  /\ file_buffer = Buffer_new
  /\ b_op = "init"

PendingInit ==
  /\ listener = Listener_new(0 - 1)
  /\ l_op = "init"
  /\ replay = Replay_new
  /\ r_op = "init"
  /\ r_processed = <<>>
  /\ r_emitted = <<>>
  /\ muxer = QueueMuxer_new
  /\ q_read = 0
  /\ q_echoed = {}
  /\ q_ended = <<>>
  /\ q_op = "init"
  /\ q_calls = NoCalls
  /\ q_last = [stream |-> 0, evt |-> NoEvent]
  /\ \E options \in ClusterOptionsOf(FALSE) : pool = SessionPool_new(options)
  /\ p_gone = {}
  /\ p_op = "init"
  /\ pipeline_def = PipelineDef_new
  /\ y_op = "init"
  /\ config = Configuration_new
  /\ c_op = "init"
  /\ stats = Metric_new("Counter", <<>>)
  /\ s_op = "init"
  /\ file_buffer = Buffer_new
  /\ b_op = "init"

KeysInit ==
  /\ listener = Listener_new(0 - 1)
  /\ l_op = "init"
  /\ replay = Replay_new
  /\ r_op = "init"
  /\ r_processed = <<>>
  /\ r_emitted = <<>>
  /\ muxer = QueueMuxer_new
  /\ q_read = 0
  /\ q_echoed = {}
  /\ q_ended = <<>>
  /\ q_op = "init"
  /\ q_calls = NoCalls
  /\ q_last = [stream |-> 0, evt |-> NoEvent]
  /\ \E options \in ClusterOptionsOf(FALSE) : pool = SessionPool_for(options, MoreKeys)
  /\ p_gone = {}
  /\ p_op = "init"
  /\ pipeline_def = PipelineDef_new
  /\ y_op = "init"
  /\ config = Configuration_new
  /\ c_op = "init"
  /\ stats = Metric_new("Counter", <<>>)
  /\ s_op = "init"
  /\ file_buffer = Buffer_new
  /\ b_op = "init"

PipelineInit ==
  /\ listener = Listener_new(0 - 1)
  /\ l_op = "init"
  /\ replay = Replay_new
  /\ r_op = "init"
  /\ r_processed = <<>>
  /\ r_emitted = <<>>
  /\ muxer = QueueMuxer_new
  /\ q_read = 0
  /\ q_echoed = {}
  /\ q_ended = <<>>
  /\ q_op = "init"
  /\ q_calls = NoCalls
  /\ q_last = [stream |-> 0, evt |-> NoEvent]
  /\ pool = SessionPool_new(DefaultOptions)
  /\ p_gone = {}
  /\ p_op = "init"
  /\ pipeline_def = PipelineDef_new
  /\ y_op = "init"
  /\ config = Configuration_new
  /\ c_op = "init"
  /\ stats = Metric_new("Counter", <<>>)
  /\ s_op = "init"
  /\ file_buffer = Buffer_new
  /\ b_op = "init"

ConfigInit ==
  /\ listener = Listener_new(0 - 1)
  /\ l_op = "init"
  /\ replay = Replay_new
  /\ r_op = "init"
  /\ r_processed = <<>>
  /\ r_emitted = <<>>
  /\ muxer = QueueMuxer_new
  /\ q_read = 0
  /\ q_echoed = {}
  /\ q_ended = <<>>
  /\ q_op = "init"
  /\ q_calls = NoCalls
  /\ q_last = [stream |-> 0, evt |-> NoEvent]
  /\ pool = SessionPool_new(DefaultOptions)
  /\ p_gone = {}
  /\ p_op = "init"
  /\ pipeline_def = PipelineDef_new
  /\ y_op = "init"
  /\ config = Configuration_new
  /\ c_op = "init"
  /\ stats = Metric_new("Counter", <<>>)
  /\ s_op = "init"
  /\ file_buffer = Buffer_new
  /\ b_op = "init"

StatsInit ==
  /\ listener = Listener_new(0 - 1)
  /\ l_op = "init"
  /\ replay = Replay_new
  /\ r_op = "init"
  /\ r_processed = <<>>
  /\ r_emitted = <<>>
  /\ muxer = QueueMuxer_new
  /\ q_read = 0
  /\ q_echoed = {}
  /\ q_ended = <<>>
  /\ q_op = "init"
  /\ q_calls = NoCalls
  /\ q_last = [stream |-> 0, evt |-> NoEvent]
  /\ pool = SessionPool_new(DefaultOptions)
  /\ p_gone = {}
  /\ p_op = "init"
  /\ pipeline_def = PipelineDef_new
  /\ y_op = "init"
  /\ config = Configuration_new
  /\ c_op = "init"
  /\ \E kind \in {"Counter", "Histogram"}, n \in 0 .. NLabelNames :
       stats = Metric_new(kind, SubSeq(LabelNameList, 1, n))
  /\ s_op = "init"
  /\ file_buffer = Buffer_new
  /\ b_op = "init"

BindInit ==
  /\ listener = Listener_new(0 - 1)
  /\ l_op = "init"
  /\ replay = Replay_new
  /\ r_op = "init"
  /\ r_processed = <<>>
  /\ r_emitted = <<>>
  /\ muxer = QueueMuxer_new
  /\ q_read = 0
  /\ q_echoed = {}
  /\ q_ended = <<>>
  /\ q_op = "init"
  /\ q_calls = NoCalls
  /\ q_last = [stream |-> 0, evt |-> NoEvent]
  /\ pool = SessionPool_new(DefaultOptions)
  /\ p_gone = {}
  /\ p_op = "init"
  /\ pipeline_def = PipelineDef_new
  /\ y_op = "init"
  /\ \E w \in OtherExports :
       config = [Configuration_new EXCEPT !.worker = w]
  /\ c_op = "init"
  /\ stats = Metric_new("Counter", <<>>)
  /\ s_op = "init"
  /\ file_buffer = Buffer_new
  /\ b_op = "init"

SpecListener == ListenerInit /\ [][ListenerNext]_vars

SpecReplay == ReplayInit /\ [][ReplayNext]_vars

SpecQueue == QueueInit /\ [][QueueNext]_vars

SpecQueueRestart == QueueInit /\ [][QueueRestartNext]_vars

SpecPipelined == QueueInit /\ [][PipelinedNext]_vars

SpecUnlink == QueueInit /\ [][UnlinkNext]_vars

SpecOneWay == OneWayInit /\ [][OneWayNext]_vars

SpecPool == PoolInit /\ [][PoolNext]_vars

SpecPending == PendingInit /\ [][PendingNext]_vars

SpecKeys == KeysInit /\ [][KeysNext]_vars

SpecShutdown == PendingInit /\ [][ShutdownNext]_vars

SpecPipeline == PipelineInit /\ [][PipelineNext]_vars

SpecFilters == PipelineInit /\ [][FiltersNext]_vars

SpecBuffer == PipelineInit /\ [][BufferNext]_vars

SpecConfig == ConfigInit /\ [][ConfigNext]_vars

SpecBind == BindInit /\ [][BindNext]_vars

SpecStats == StatsInit /\ [][StatsNext]_vars

\* A filter or pipeline that no call has touched yet.
ReplayUntouched == replay = Replay_new /\ r_op = "init"
PoolUntouched == pool = SessionPool_new(DefaultOptions) /\ p_op = "init"
PipelineUntouched == pipeline_def = PipelineDef_new /\ y_op = "init"

\* The objects that reset() is defined for, one of them in use at a time: a
\* Replay filter, the mux filters of a pool, or the pipelines of a layout.
ResetInit ==
  /\ listener = Listener_new(0 - 1)
  /\ l_op = "init"
  /\ replay = Replay_new
  /\ r_op = "init"
  /\ r_processed = <<>>
  /\ r_emitted = <<>>
  /\ muxer = QueueMuxer_new
  /\ q_read = 0
  /\ q_echoed = {}
  /\ q_ended = <<>>
  /\ q_op = "init"
  /\ q_calls = NoCalls
  /\ q_last = [stream |-> 0, evt |-> NoEvent]
  /\ \E options \in ClusterOptions : pool = SessionPool_new(options)
  /\ p_gone = {}
  /\ p_op = "init"
  /\ pipeline_def = PipelineDef_new
  /\ y_op = "init"
  /\ config = Configuration_new
  /\ c_op = "init"
  /\ stats = Metric_new("Counter", <<>>)
  /\ s_op = "init"
  /\ file_buffer = Buffer_new
  /\ b_op = "init"

ReplayInUse == PoolUntouched /\ PipelineUntouched /\ ReplayNext
PoolInUse == ReplayUntouched /\ PipelineUntouched /\ PoolNext
PipelineInUse == ReplayUntouched /\ PoolUntouched /\ PipelineNext

ResetNext ==
  \/ ReplayInUse
  \/ PoolInUse
  \/ PipelineInUse

SpecReset == ResetInit /\ [][ResetNext]_vars

(***************************************************************************)
(* Observations of a QueueMuxer run.                                       *)
(***************************************************************************)
IsPrefix(a, b) ==
  /\ Len(a) <= Len(b)
  /\ \A i \in 1 .. Len(a) : a[i] = b[i]

\* The Streams in the order their reply's MessageEnd was put on their output.
ReplyOrder ==
  LET IsEnd(e) == e.evt.kind = "MessageEnd"
      ends == SelectSeq(muxer.reply_log, IsEnd)
  IN  [i \in 1 .. Len(ends) |-> ends[i].stream]

\* The two-way Streams in the order their upstream message end was observed.
EnqueueOrder ==
  LET TwoWay(f) == ~muxer.streams[f].m_one_way
  IN  SelectSeq(q_ended, TwoWay)

\* The reply events Stream s has received.
RepliesOf(s) ==
  LET To(e) == e.stream = s
  IN  SelectSeq(muxer.reply_log, To)

\* The session has echoed an event of the request of a one_way Stream.
OneWayAnswered ==
  \E i \in q_echoed :
    muxer.streams[RequestOf(muxer.session_input, i)].m_one_way

(***************************************************************************)
(* C1: the Streams of a non-dedicated QueueMuxer receive their replies in  *)
(* the order in which their upstream message end was observed, the order   *)
(* they were enqueued in, and a one_way Stream receives no reply event.    *)
(***************************************************************************)
C1_RepliesInEnqueueOrder ==
  /\ IsPrefix(ReplyOrder, EnqueueOrder)
  /\ \A s \in Streams : muxer.streams[s].m_one_way => RepliesOf(s) = <<>>

\* Both Streams have their complete reply, the second Stream first, as its
\* message ended first.
C1_Witness ==
  /\ q_ended = <<2, 1>>
  /\ ReplyOrder = <<2, 1>>

(***************************************************************************)
(* C2: in non-dedicated mode a reply event from the session goes to the    *)
(* Stream at the head of the queue only, and a Stream behind the head has  *)
(* received no reply event.                                                *)
(***************************************************************************)
C2_RepliesToHeadOnly ==
  [][/\ \A i \in (Len(muxer.reply_log) + 1) .. Len(muxer'.reply_log) :
          /\ muxer.m_streams # <<>>
          /\ muxer'.reply_log[i].stream = Head(muxer.m_streams)
     /\ \A j \in 2 .. Len(muxer'.m_streams) :
          LET behind == muxer'.m_streams[j]
          IN  \A i \in 1 .. Len(muxer'.reply_log) :
                muxer'.reply_log[i].stream # behind]_vars

\* The head Stream has received a part of its reply while another Stream
\* waits behind it.
C2_Witness ==
  /\ Len(muxer.m_streams) = 2
  /\ RepliesOf(Head(muxer.m_streams)) # <<>>
  /\ q_op = "on_reply"

AttachedSessions ==
  {s \in SessionIds :
     pool.sessions[s].live /\ pool.sessions[s].m_cluster # NoKey}

\* The mux filters that have a Stream open on session s.
StreamsOn(s) ==
  {m \in Muxers : pool.muxers[m].m_session = s /\ pool.muxers[m].m_stream}

(***************************************************************************)
(* C4: in a cluster with max_queue = Q > 0 and max_messages = M > 0, every *)
(* session has share_count <= Q and message_count <= M, whatever sequence  *)
(* of open_stream and reset the mux filters have run.                      *)
(***************************************************************************)
C4_SessionAdmission ==
  (pool.options.max_queue > 0 /\ pool.options.max_messages > 0) =>
    \A s \in AttachedSessions :
      /\ pool.sessions[s].m_share_count <= pool.options.max_queue
      /\ pool.sessions[s].m_message_count <= pool.options.max_messages

\* With Q = 1, a session is full in both counts and a second session serves
\* the other mux filter.
C4_Witness ==
  /\ pool.options.max_queue = 1
  /\ pool.options.max_messages = 2
  /\ \E s, t \in AttachedSessions :
       /\ s # t
       /\ pool.sessions[s].m_share_count = 1
       /\ pool.sessions[s].m_message_count = 2
       /\ pool.sessions[t].m_share_count = 1

(***************************************************************************)
(* C5: the share_count of a session is the number of Streams open on it    *)
(* plus the number of mux filters on its waiting list, also for a session  *)
(* that alloc() has just created, and it is never negative.                *)
(***************************************************************************)
C5_ShareCountIsStreamsPlusWaiting ==
  \A s \in SessionIds :
    pool.sessions[s].live =>
      /\ pool.sessions[s].m_share_count >= 0
      /\ pool.sessions[s].m_share_count =
           Cardinality(StreamsOn(s)) + Len(pool.sessions[s].m_waiting_muxers)

\* A pending session, just created, has both mux filters on its waiting
\* list and no Stream yet.
C5_Witness ==
  \E s \in SessionIds :
    /\ pool.sessions[s].live
    /\ pool.sessions[s].m_is_pending
    /\ StreamsOn(s) = {}
    /\ Len(pool.sessions[s].m_waiting_muxers) = 2

(***************************************************************************)
(* C6: a session whose share_count has been 0 for at least max_idle        *)
(* seconds is detached from its cluster by the recycle tick: after a tick  *)
(* no session of a cluster is free for max_idle seconds or more.           *)
(***************************************************************************)
C6_IdleSessionRecycled ==
  p_op = "tick" =>
    \A s \in AttachedSessions :
      pool.sessions[s].m_share_count = 0 =>
        pool.now - pool.sessions[s].m_free_time < pool.options.max_idle

(***************************************************************************)
(* C7: once the object that is a weak session key is unreachable, its      *)
(* cluster is no longer in the pool's map, and after the next recycle tick *)
(* the cluster is gone and none of its sessions is left.                   *)
(***************************************************************************)
C7_WeakKeyGoneRecyclesCluster ==
  \A k \in p_gone :
    /\ k \notin pool.m_weak_clusters
    /\ p_op = "tick" =>
         /\ ~pool.clusters[k].exists
         /\ \A s \in SessionIds :
              pool.sessions[s].live => pool.sessions[s].m_cluster # k

\* The tick after the key has gone has recycled the two sessions of its
\* cluster, before either of them was idle for max_idle seconds.
C7_Witness ==
  /\ p_op = "tick"
  /\ pool.now < pool.options.max_idle
  /\ \E k \in p_gone :
       {r.session : r \in {x \in pool.recycled : x.cluster = k}} = SessionIds

(***************************************************************************)
(* C8: with max_connections = n > 0 the number of live inbounds is at most *)
(* n in every reachable state.  It is stated on the states that follow a   *)
(* completed accept, the only step that adds an inbound, so that what      *)
(* refutes it is an admission and not a set_options call that lowers n     *)
(* below the number of inbounds already admitted.                          *)
(***************************************************************************)
C8_LiveInboundsWithinLimit ==
  (l_op = "open" /\ listener.max_connections > 0)
    => listener.m_inbounds <= listener.max_connections

(***************************************************************************)
(* C9: when an inbound closes and the number of live inbounds is thereby   *)
(* below max_connections while a layout is bound, an accept is outstanding *)
(* when the callback returns.                                              *)
(***************************************************************************)
C9_ResumesAfterClose ==
  (/\ l_op = "close"
   /\ listener.m_pipeline_layout # NoLayout
   /\ listener.max_connections > 0
   /\ listener.m_inbounds < listener.max_connections)
    => listener.accepting > 0

(***************************************************************************)
(* C10: when a replay runs (the sub-pipeline has emitted StreamEnd(REPLAY) *)
(* after any prefix of the captured events), the sub-pipeline that is      *)
(* current afterwards is a new one, and it has received every event        *)
(* processed since the last reset exactly once, in the original order, as  *)
(* a clone: same content, another object.                                  *)
(***************************************************************************)
C10_ReplayFeedsFullCapture ==
  r_op = "replay" =>
    /\ replay.m_pipeline # NoPipeline
    /\ replay.m_pipeline \notin replay.released
    /\ Len(replay.sub_input) = Len(r_processed)
    /\ \A i \in 1 .. Len(r_processed) :
         /\ replay.sub_input[i].kind = r_processed[i].kind
         /\ replay.sub_input[i].error = r_processed[i].error
         /\ replay.sub_input[i].body = r_processed[i].body
         /\ replay.sub_input[i].copy # r_processed[i].copy

\* A replay has run over a capture of at least two events.
C10_Witness ==
  /\ r_op = "replay"
  /\ Len(r_processed) >= 2
  /\ replay.released # {}

(***************************************************************************)
(* C11: a StreamEnd with Error::REPLAY from the sub-pipeline is never      *)
(* emitted on the output of the Replay filter, and every other event from  *)
(* the sub-pipeline is emitted unchanged and in order: the output is what  *)
(* the sub-pipelines emitted without the REPLAY ends.                      *)
(***************************************************************************)
C11_ReplayEndNotSurfaced ==
  LET Passed(e) == ~(e.kind = "StreamEnd" /\ e.error = ReplayError)
  IN  replay.output = SelectSeq(r_emitted, Passed)

\* The sub-pipelines emitted a Data, a StreamEnd(REPLAY) and a StreamEnd with
\* another error: the output has the first and the last.
C11_Witness ==
  /\ Len(r_emitted) = 3
  /\ r_emitted[1].kind = "Data"
  /\ r_emitted[2].kind = "StreamEnd" /\ r_emitted[2].error = ReplayError
  /\ r_emitted[3].kind = "StreamEnd" /\ r_emitted[3].error = OtherError
  /\ Len(replay.output) = 2

(***************************************************************************)
(* Observations of a PipelineDef.                                          *)
(***************************************************************************)
\* The free list of Y from pipeline p on, following m_next_free for at most
\* n steps.
RECURSIVE FreeListFrom(_, _, _)
FreeListFrom(Y, p, n) ==
  IF p = NoPipeline \/ n = 0
    THEN <<>>
    ELSE <<p>> \o FreeListFrom(Y, Y.pipelines[p].m_next_free, n - 1)

\* The free list of Y; it is one longer than the number of Pipeline objects
\* when the links form a cycle.
FreeList(Y) == FreeListFrom(Y, Y.m_pool, MaxPipelines + 2)

\* How often x occurs in a list.
Occurrences(list, x) == Cardinality({i \in 1 .. Len(list) : list[i] = x})

(***************************************************************************)
(* C12: allocated_count is at least the number of live pipelines plus the  *)
(* depth of the free list, it never decreases, and a Pipeline is           *)
(* constructed only when the free list is empty.                           *)
(***************************************************************************)
C12_AllocatedCountCoversPipelines ==
  [][/\ pipeline_def'.m_allocated >= pipeline_def.m_allocated
     /\ pipeline_def'.m_allocated >=
          Len(pipeline_def'.m_pipelines) + Len(FreeList(pipeline_def'))
     /\ pipeline_def'.m_allocated > pipeline_def.m_allocated
          => pipeline_def.m_pool = NoPipeline]_vars

\* A pipeline is taken from a free list of two while another one is live.
C12_Witness ==
  /\ y_op = "alloc"
  /\ pipeline_def.m_allocated = 3
  /\ Len(pipeline_def.m_pipelines) = 2
  /\ Len(FreeList(pipeline_def)) = 1
  /\ pipeline_def.refs = 2

(***************************************************************************)
(* C13: every Pipeline of a layout is on exactly one of the layout's live  *)
(* list and its free list, once.                                           *)
(***************************************************************************)
C13_LiveOrFree ==
  \A p \in 1 .. pipeline_def.m_allocated :
    Occurrences(pipeline_def.m_pipelines, p)
      + Occurrences(FreeList(pipeline_def), p) = 1

\* Of three pipelines, the one recycled last heads the free list and the one
\* recycled first is live again.
C13_Witness ==
  /\ y_op = "on_recycle"
  /\ pipeline_def.m_allocated = 3
  /\ Len(pipeline_def.m_pipelines) = 1
  /\ Len(FreeList(pipeline_def)) = 2
  /\ pipeline_def.m_pipelines[1] > pipeline_def.m_pool

(***************************************************************************)
(* C14: reset is idempotent.  A second reset() right after the first       *)
(* leaves a Replay filter, a mux filter with its pool, and a pipeline as   *)
(* the first reset() left them; the session is not freed a second time.    *)
(***************************************************************************)
C14_ResetIdempotent ==
  /\ Replay_reset(Replay_reset(replay)) = Replay_reset(replay)
  /\ \A m \in Muxers :
       MuxBase_reset(MuxBase_reset(pool, m), m) = MuxBase_reset(pool, m)
  /\ \A p \in LivePipelines :
       Pipeline_reset(Pipeline_reset(pipeline_def, p), p)
         = Pipeline_reset(pipeline_def, p)

\* Two mux filters have a Stream on the same session: a reset of one of them
\* takes its share only.
C14_Witness ==
  \E s \in SessionIds :
    /\ pool.sessions[s].live
    /\ pool.sessions[s].m_share_count = 2
    /\ StreamsOn(s) = Muxers
    /\ MuxBase_reset(pool, 1).sessions[s].m_share_count = 1

(***************************************************************************)
(* C15: a Stream records only its first MessageStart.  A further           *)
(* MessageStart before the end of the message changes neither the recorded *)
(* start nor the buffered Data nor anything else of the muxer, and every   *)
(* message flushed to the session starts with the first MessageStart.      *)
(***************************************************************************)
C15_FirstMessageStartKept ==
  [][/\ q_op' = "restart" => muxer' = muxer
     /\ \A f \in Streams :
          muxer'.streams[f].m_start \in {NoEvent, FirstStart(f)}
     /\ \A i \in 1 .. Len(muxer'.session_input) :
          muxer'.session_input[i].kind = "MessageStart" =>
            muxer'.session_input[i]
              = FirstStart(muxer'.session_input[i].src)]_vars

\* The only started filter repeated its MessageStart after a Data: its
\* Stream still holds the first start and the Data.
C15_Witness ==
  /\ q_op = "restart"
  /\ UpstreamStarted(1) /\ ~UpstreamStarted(2)
  /\ muxer.streams[1].m_start = FirstStart(1)
  /\ muxer.streams[1].m_buffer = <<1>>

(***************************************************************************)
(* C16: a cluster whose session list has become empty is removed from the  *)
(* pool's map and from the recycle list and is freed: every cluster that   *)
(* exists, and every cluster the pool's maps or recycle list lead to, has  *)
(* at least one session.                                                   *)
(***************************************************************************)
C16_NoEmptyCluster ==
  /\ \A k \in Keys :
       pool.clusters[k].exists => pool.clusters[k].m_sessions # <<>>
  /\ \A k \in pool.m_clusters \cup pool.m_weak_clusters :
       pool.clusters[k].exists
  /\ \A i \in 1 .. Len(pool.m_recycle_clusters) :
       pool.clusters[pool.m_recycle_clusters[i]].exists

\* The recycle timer has detached the last session of a cluster, which is
\* gone from the pool.
C16_Witness ==
  /\ p_op = "tick"
  /\ \E r \in pool.recycled :
       /\ ~pool.clusters[r.cluster].exists
       /\ r.cluster \notin pool.m_clusters \cup pool.m_weak_clusters
  /\ pool.m_recycle_clusters = <<>>

(***************************************************************************)
(* C17: the events a mux filter is given while its session is pending are  *)
(* buffered; when the session stops being pending, each waiting muxer has  *)
(* a Stream that got exactly its buffered events, in arrival order, its    *)
(* buffer is empty and the session's waiting list is empty.  Later events  *)
(* follow them on the Stream: a Stream's input is always the muxer's       *)
(* events 1, 2, ... in arrival order, the buffer holding the rest.         *)
(***************************************************************************)
C17_PendingEventsFlushedInOrder ==
  [][/\ \A s \in SessionIds :
          (/\ pool.sessions[s].live /\ pool.sessions[s].m_is_pending
           /\ pool'.sessions[s].live /\ ~pool'.sessions[s].m_is_pending)
          => /\ pool'.sessions[s].m_waiting_muxers = <<>>
             /\ \A i \in 1 .. Len(pool.sessions[s].m_waiting_muxers) :
                  LET m == pool.sessions[s].m_waiting_muxers[i]
                  IN  /\ pool'.muxers[m].m_stream
                      /\ ~pool'.muxers[m].m_waiting
                      /\ pool'.muxers[m].stream_input
                           = pool.muxers[m].m_waiting_events
                      /\ pool'.muxers[m].m_waiting_events = <<>>
     /\ \A m \in Muxers :
          LET events == pool'.muxers[m].stream_input
                          \o pool'.muxers[m].m_waiting_events
          IN  /\ events = [i \in 1 .. Len(events) |-> i]
              /\ pool'.muxers[m].m_waiting
                   \/ pool'.muxers[m].m_waiting_events = <<>>]_vars

\* The only session, pending so far, has just opened: the first mux filter
\* had two events buffered and the second one, and their streams have them.
C17_Witness ==
  /\ p_op = "set_pending"
  /\ pool.muxers[1].m_session # NoSession
  /\ pool.muxers[1].m_session = pool.muxers[2].m_session
  /\ \A s \in SessionIds :
       pool.sessions[s].live <=> s = pool.muxers[1].m_session
  /\ pool.muxers[1].m_stream /\ pool.muxers[2].m_stream
  /\ pool.muxers[1].stream_input = <<1, 2>>
  /\ pool.muxers[2].stream_input = <<1>>
  /\ pool.sessions[pool.muxers[1].m_session].m_waiting_muxers = <<>>

(***************************************************************************)
(* C18: the session of a mux filter belongs to the cluster that the pool   *)
(* has for the filter's key, so mux filters with equal keys are served by  *)
(* sessions of one cluster, and mux filters with different keys never have *)
(* the same Session, also after a key's cluster was removed and made anew. *)
(***************************************************************************)
C18_SessionsByKey ==
  /\ \A m \in Muxers :
       LET s == pool.muxers[m].m_session
           k == pool.muxers[m].m_session_key
       IN  s # NoSession =>
             /\ pool.sessions[s].live
             /\ pool.sessions[s].m_cluster = k
             /\ pool.clusters[k].exists
             /\ k \in pool.m_clusters \cup pool.m_weak_clusters
             /\ \E i \in 1 .. Len(pool.clusters[k].m_sessions) :
                  pool.clusters[k].m_sessions[i] = s
  /\ \A m1, m2 \in Muxers :
       (/\ pool.muxers[m1].m_session # NoSession
        /\ pool.muxers[m1].m_session = pool.muxers[m2].m_session)
       => pool.muxers[m1].m_session_key = pool.muxers[m2].m_session_key

\* The recycle timer has just removed the cluster of key 1, which served
\* the first mux filter before, while the second mux filter holds a session
\* of key 2.
C18_Witness ==
  /\ p_op = "tick"
  /\ \E r \in pool.recycled : r.cluster = 1
  /\ ~pool.clusters[1].exists
  /\ 1 \notin pool.m_clusters
  /\ pool.muxers[1].m_session = NoSession
  /\ pool.muxers[2].m_session # NoSession
  /\ pool.muxers[2].m_session_key = 2

(***************************************************************************)
(* C19: at a recycle tick after shutdown() every session of the pool that  *)
(* is idle (attached, share count 0) is recycled, whatever max_idle is,    *)
(* and while there is such a session after shutdown() a tick is scheduled. *)
(***************************************************************************)
\* The sessions of the pool's clusters that no mux filter shares.
IdleSessions(P) ==
  {s \in SessionIds : /\ P.sessions[s].live
                      /\ P.sessions[s].m_cluster # NoKey
                      /\ P.sessions[s].m_share_count = 0}

C19_ShutdownRecyclesIdle ==
  [][/\ (pool.m_has_shutdown /\ p_op' = "tick") =>
          \A s \in IdleSessions(pool) :
            /\ \E r \in pool'.recycled : r.session = s
            /\ s \notin IdleSessions(pool')
     /\ (pool'.m_has_shutdown /\ IdleSessions(pool') # {})
          => pool'.m_recycling]_vars

(***************************************************************************)
(* C20: in the FilterConfigurator every joint filter is followed by        *)
(* exactly one to().  Appending a filter while a joint filter awaits its   *)
(* to() fails and leaves the filter lists unchanged, to() without a        *)
(* pending joint filter fails, the integrity check fails while a joint     *)
(* filter is pending, and in an accepted configuration every joint filter  *)
(* has exactly one sub-pipeline.                                           *)
(***************************************************************************)
C20_JointFiltersGetTheirTo ==
  [][/\ (c_op' = "append"
           /\ config.configurators[CurrentConfig].m_current_joint_filter
                # NoFilter)
          => (config'.status = "error" /\ config'.lists = config.lists)
     /\ (c_op' = "to"
           /\ config.configurators[CurrentConfig].m_current_joint_filter
                = NoFilter)
          => (config'.status = "error" /\ config'.lists = config.lists)
     /\ (c_op' = "bind"
           /\ config.configurators[RootConfig].m_current_joint_filter
                # NoFilter)
          => config'.status = "error"
     /\ config'.status = "accepted" =>
          \A i \in LayoutIds : \A n \in 1 .. Len(config'.lists[i]) :
            config'.lists[i][n].joint
              => config'.lists[i][n].sub_pipelines = 1]_vars

(***************************************************************************)
(* C21: bind_exports() fails with an error when an exported name is        *)
(* already in the context prototype, so no name is set in the prototype    *)
(* twice; bind_imports() fails with an error when an import has no export  *)
(* of its namespace and name in the worker.                                *)
(***************************************************************************)
NamesOf(list) == {list[i].name : i \in 1 .. Len(list)}

C21_BindRejectsDuplicatesAndUnresolved ==
  [][/\ (c_op' = "bind_exports"
           /\ \/ NamesOf(config.m_exports) \cap config.m_context_prototype
                   # {}
              \/ Cardinality(NamesOf(config.m_exports))
                   < Len(config.m_exports))
          => config'.status = "error"
     /\ \A i, j \in 1 .. Len(config'.prototype_set) :
          config'.prototype_set[i] = config'.prototype_set[j] => i = j
     /\ (c_op' = "bind_imports"
           /\ \E i \in 1 .. Len(config.m_imports) :
                [ns |-> config.m_imports[i].ns,
                 name |-> config.m_imports[i].name] \notin config.worker)
          => config'.status = "error"]_vars

\* A name exported in two namespaces has been rejected after the first
\* export was bound.
C21_Witness ==
  /\ c_op = "bind_exports"
  /\ config.status = "error"
  /\ Len(config.m_exports) = 2
  /\ config.m_exports[1].name = config.m_exports[2].name
  /\ config.m_exports[1].ns # config.m_exports[2].ns
  /\ config.prototype_set = <<config.m_exports[1].name>>

\* The label pairs of the metric at path, as to_prometheus() writes them.
RECURSIVE LabelTokens(_, _)
LabelTokens(path, i) ==
  IF i > Len(path)
    THEN <<>>
    ELSE <<IF i > 1 THEN "," ELSE "{", stats.m_label_names[i],
           "=", "\"", path[i], "\"">> \o LabelTokens(path, i + 1)

\* The line the claim gives to the metric at path: for a histogram the
\* line of bucket b, for a counter b is 0.
LineOf(path, b) ==
  <<stats.m_name>>
  \o LabelTokens(path, 1)
  \o (IF b > 0
        THEN <<IF Len(path) > 0 THEN "," ELSE "{",
               "le", "=", "\"", ToString(b), "\"", "}">>
        ELSE IF Len(path) > 0 THEN <<"}">> ELSE <<>>)
  \o <<" ",
       ToString(IF b > 0 THEN stats.nodes[path].counts[b]
                         ELSE stats.nodes[path].m_value),
       "\n">>

ExpectedLines ==
  {LineOf(path, b) :
     <<path, b>> \in
       {pb \in MetricPaths \X (0 .. NBuckets) :
          /\ stats.nodes[pb[1]].m_has_value
          /\ (pb[2] > 0) = (stats.kind = "Histogram")
          /\ pb[2] > 0 => pb[2] \in DOMAIN stats.nodes[pb[1]].counts}}

\* The lines of the text: the tokens up to each newline.
LineEnds == {i \in 1 .. Len(stats.out) : stats.out[i] = "\n"}
WrittenLines ==
  {SubSeq(stats.out,
          IF \E j \in LineEnds : j < i
            THEN 1 + SetMax({j \in LineEnds : j < i}) ELSE 1,
          i) : i \in LineEnds}

(***************************************************************************)
(* C22: when to_prometheus() has run, the text holds, for every metric     *)
(* that has a value, one line: the name, the label="value" pairs in braces *)
(* (only for a metric with labels) in the order of the label names, a      *)
(* space, the number and a newline; a histogram has one such line for each *)
(* bucket, the bucket being the label le.  Nothing else is written.        *)
(***************************************************************************)
C22_PrometheusLines ==
  s_op = "to_prometheus" =>
    /\ ~stats.crashed
    /\ WrittenLines = ExpectedLines
    /\ Cardinality(LineEnds) = Cardinality(ExpectedLines)
    /\ (stats.out # <<>> => stats.out[Len(stats.out)] = "\n")

\* The same for the metrics the claim is right about: counters, and
\* histograms none of whose sub-metrics has a value.
C22_PrometheusLinesUnlabelled ==
  (/\ s_op = "to_prometheus"
   /\ \A path \in MetricPaths :
        stats.nodes[path].m_has_value => stats.nodes[path].m_percentile
                                         \/ stats.kind = "Counter")
  => /\ ~stats.crashed
     /\ WrittenLines = ExpectedLines
     /\ Cardinality(LineEnds) = Cardinality(ExpectedLines)

\* Session x has room for one more Stream and one more message.
HasRoom(x) ==
  /\ ~pool.sessions[x].m_is_closed
  /\ pool.options.max_queue = 0
       \/ pool.sessions[x].m_share_count < pool.options.max_queue
  /\ pool.options.max_messages = 0
       \/ pool.sessions[x].m_message_count < pool.options.max_messages

\* The mux filters that get a session from alloc() in this step.
Allocating ==
  {m \in Muxers : /\ pool.muxers[m].m_session = NoSession
                  /\ pool'.muxers[m].m_session # NoSession}

(***************************************************************************)
(* C23: the session alloc() returns is never closed.  It is a new session  *)
(* only when no session of the cluster that is not closed has share_count  *)
(* below max_queue and message_count below max_messages (0 meaning no      *)
(* limit); otherwise it is the first session of the list, in list order,   *)
(* that has such room.                                                     *)
(***************************************************************************)
C23_AllocFirstFit ==
  [][\A m \in Allocating :
       LET s == pool'.muxers[m].m_session
           list == pool.clusters[pool'.muxers[m].m_session_key].m_sessions
           Room == {j \in 1 .. Len(list) : HasRoom(list[j])}
       IN  /\ ~pool'.sessions[s].m_is_closed
           /\ ~pool.sessions[s].live => Room = {}
           /\ pool.sessions[s].live =>
                /\ Room # {}
                /\ s = list[SetMin(Room)]]_vars

\* alloc() has passed over a closed session at the head of the list and
\* returned the session behind it.
C23_Witness ==
  \E m \in Muxers, k \in DOMAIN pool.clusters :
    /\ p_op = "call"
    /\ pool.muxers[m].m_session # NoSession
    /\ pool.muxers[m].m_session_key = k
    /\ Len(pool.clusters[k].m_sessions) = 2
    /\ pool.clusters[k].m_sessions[2] = pool.muxers[m].m_session
    /\ pool.sessions[pool.clusters[k].m_sessions[1]].m_is_closed
    /\ pool.sessions[pool.clusters[k].m_sessions[2]].m_message_count = 2

\* The mux filters that give their session back through free() in this
\* step.
Freeing ==
  {m \in Muxers : /\ pool.muxers[m].m_session # NoSession
                  /\ pool'.muxers[m].m_session = NoSession}

\* The clusters in which this step has run alloc() or free().
AllocOrFreeKeys ==
  {pool'.muxers[m].m_session_key : m \in Allocating}
  \cup {pool.muxers[m].m_session_key : m \in Freeing}

\* The list of cluster k, after the step, is in the order of share_count.
SortedAfter(k) ==
  LET list == pool'.clusters[k].m_sessions
  IN  \A i, j \in 1 .. Len(list) :
        i < j => pool'.sessions[list[i]].m_share_count
                   <= pool'.sessions[list[j]].m_share_count

(***************************************************************************)
(* C24: after every alloc(), whether it reuses a session or puts a new one *)
(* at the head, and after every free(), the session list of the cluster is *)
(* in the order of non-decreasing share_count.                             *)
(***************************************************************************)
C24_ListSortedAfterAllocFree ==
  [][\A k \in AllocOrFreeKeys : SortedAfter(k)]_vars

\* The same for the steps in which alloc() reuses a session or free() runs.
C24_ListSortedAfterReuseOrFree ==
  [][(\A m \in Allocating : pool.sessions[pool'.muxers[m].m_session].live)
       => \A k \in AllocOrFreeKeys :
            (\A i, j \in 1 .. Len(pool.clusters[k].m_sessions) :
               i < j =>
                 pool.sessions[pool.clusters[k].m_sessions[i]].m_share_count
                   <= pool.sessions[pool.clusters[k].m_sessions[j]].m_share_count)
            => SortedAfter(k)]_vars

\* The clusters in which this step has run alloc(), free(), discard() or
\* on_weak_ptr_gone() and which still exist.
ScheduleKeys ==
  {k \in AllocOrFreeKeys \cup (p_gone' \ p_gone)
           \cup {r.cluster : r \in pool'.recycled} :
     pool'.clusters[k].exists}

(***************************************************************************)
(* C25: after every alloc(), free(), discard() and on_weak_ptr_gone() the  *)
(* cluster is on the recycle list of its pool, and m_recycle_scheduled is  *)
(* true, exactly when its session list is not empty and the session at the *)
(* head has share_count 0.                                                 *)
(***************************************************************************)
C25_ScheduledIffHeadFree ==
  [][\A k \in ScheduleKeys :
       LET c == pool'.clusters[k]
           HeadFree ==
             /\ c.m_sessions # <<>>
             /\ pool'.sessions[Head(c.m_sessions)].m_share_count = 0
           Linked == \E i \in 1 .. Len(pool'.m_recycle_clusters) :
                       pool'.m_recycle_clusters[i] = k
       IN  /\ c.m_recycle_scheduled <=> HeadFree
           /\ Linked <=> HeadFree]_vars

\* Session s, free before a tick at time now, is one the tick has to
\* recycle.
DueAt(s, now) ==
  \/ pool.sessions[s].m_is_closed
  \/ pool.clusters[pool.sessions[s].m_cluster].m_weak_ptr_gone
  \/ /\ pool.options.max_messages > 0
     /\ pool.sessions[s].m_message_count >= pool.options.max_messages
  \/ now - pool.sessions[s].m_free_time >= pool.options.max_idle

(***************************************************************************)
(* C26: a recycle tick unlinks and detaches no session whose share_count   *)
(* is above 0, and it recycles a session of share_count 0 exactly when the *)
(* session is closed, or the weak key of its cluster is gone, or its       *)
(* message_count has reached max_messages (> 0), or it has been free for   *)
(* max_idle; this for every free session, wherever it is in the list.      *)
(***************************************************************************)
C26_TickRecyclesDueSessions ==
  [][p_op' = "tick" =>
       LET now == IF pool.m_has_shutdown THEN Infinity ELSE pool.now
       IN  \A s \in AttachedSessions :
             (\E r \in pool'.recycled : r.session = s)
               <=> /\ pool.sessions[s].m_share_count = 0
                   /\ DueAt(s, now)]_vars

\* The part of C26 that does not depend on the place in the list: what a
\* tick recycles is free and due.
C26_TickRecyclesOnlyDueSessions ==
  [][p_op' = "tick" =>
       LET now == IF pool.m_has_shutdown THEN Infinity ELSE pool.now
       IN  \A s \in AttachedSessions :
             (\E r \in pool'.recycled : r.session = s)
               => /\ pool.sessions[s].m_share_count = 0
                  /\ DueAt(s, now)]_vars

(***************************************************************************)
(* Observations of a QueueMuxer whose filters send several messages.       *)
(***************************************************************************)
\* g is one whole message of Stream f: its MessageStart, at most one Data
\* made of chunks of f only, and a MessageEnd.
WholeMessageOf(g, f) ==
  /\ Len(g) \in {2, 3}
  /\ g[1].kind = "MessageStart" /\ g[1].src = f
  /\ g[Len(g)].kind = "MessageEnd" /\ g[Len(g)].src \in {0, f}
  /\ Len(g) = 3 =>
       /\ g[2].kind = "Data"
       /\ g[2].bytes # <<>>
       /\ \A i \in 1 .. Len(g[2].bytes) : g[2].bytes[i] = f

\* input is a sequence of whole messages, each of one Stream.
RECURSIVE WholeMessages(_)
WholeMessages(input) ==
  \/ input = <<>>
  \/ \E n \in {2, 3} :
       /\ n <= Len(input)
       /\ \E f \in Streams : WholeMessageOf(SubSeq(input, 1, n), f)
       /\ WholeMessages(SubSeq(input, n + 1, Len(input)))

\* What the step has added to the input of the session.
NewInput ==
  SubSeq(muxer'.session_input, Len(muxer.session_input) + 1,
         Len(muxer'.session_input))

\* No Stream has been dedicated.
NoneDedicated(M) == \A s \in Streams : ~M.streams[s].m_dedicated

\* What C27 says of a step in which filter f was given an event.
FlushesWholeMessage(f) ==
  /\ \/ NewInput = <<>>
     \/ WholeMessageOf(NewInput, f)
  /\ muxer'.m_streams =
       IF NewInput # <<>> /\ ~muxer'.streams[f].m_one_way
         THEN Append(muxer.m_streams, f)
         ELSE muxer.m_streams

\* input is a sequence of whole messages, the last of which may still lack
\* its end.
RECURSIVE WholeMessagesSoFar(_)
WholeMessagesSoFar(input) ==
  \/ Len(input) = 0
  \/ Len(input) <= 2 /\ input[1].kind = "MessageStart"
        /\ \A i \in 2 .. Len(input) :
             input[i].kind = "Data" /\ input[i].src = input[1].src
  \/ \E n \in {2, 3} :
       /\ n <= Len(input)
       /\ \E f \in Streams : WholeMessageOf(SubSeq(input, 1, n), f)
       /\ WholeMessagesSoFar(SubSeq(input, n + 1, Len(input)))

\* C27 as it is stated, in every mode: the input of the session is made of
\* whole messages, each of one Stream, none mixed with the events of
\* another Stream.
C27_WholeMessagesInEveryMode ==
  [][/\ WholeMessagesSoFar(muxer'.session_input)
     /\ (q_op' = "process" /\ ~muxer.streams[q_last'.stream].m_dedicated)
          => FlushesWholeMessage(q_last'.stream)]_vars

(***************************************************************************)
(* C27: as long as no Stream is dedicated, what a Stream adds to the input *)
(* of the session is nothing or one whole message - MessageStart, at most  *)
(* one Data, MessageEnd - so that the input is a sequence of whole         *)
(* messages, each of one Stream, however the upstream events interleave;   *)
(* and a Stream that is not one_way is appended to the queue once for each *)
(* message it flushes, a one_way Stream never.                             *)
(***************************************************************************)
C27_WholeMessagesUnlessDedicated ==
  [][NoneDedicated(muxer') =>
       /\ WholeMessages(muxer'.session_input)
       /\ q_op' = "process" => FlushesWholeMessage(q_last'.stream)]_vars

\* Stream 1 was given its MessageStart and a Data, then Stream 2 sent a
\* whole message, then Stream 1 its MessageEnd: the input holds the message
\* of Stream 2 and behind it that of Stream 1, and both are queued.
C27_Witness ==
  /\ NoneDedicated(muxer)
  /\ Len(muxer.session_input) = 5
  /\ WholeMessageOf(SubSeq(muxer.session_input, 1, 2), 2)
  /\ WholeMessageOf(SubSeq(muxer.session_input, 3, 5), 1)
  /\ muxer.m_streams = <<2, 1>>
  /\ q_op = "process" /\ q_last.stream = 1

\* The messages of Stream f that have reached the session.
FlushedMessages(M, f) ==
  Cardinality({i \in 1 .. Len(M.session_input) :
                 /\ M.session_input[i].kind = "MessageStart"
                 /\ M.session_input[i].src = f})

\* The replies that the Streams in the queue wait for grow by
\* increase_queue_count() only.
GrowsByIncreaseOnly ==
  \A s \in Streams :
    (/\ \E i \in 1 .. Len(muxer.m_streams) : muxer.m_streams[i] = s
     /\ muxer'.streams[s].m_queued_count > muxer.streams[s].m_queued_count)
    => /\ q_op' = "increase_queue_count"
       /\ s = Head(muxer.m_streams)
       /\ muxer'.streams[s].m_queued_count
            = muxer.streams[s].m_queued_count + 1

(***************************************************************************)
(* C28: the messages a Stream is given after the first one it has flushed  *)
(* are forwarded to the session as well - every message that has ended     *)
(* upstream has reached the session - and the number of replies the head   *)
(* Stream waits for grows only through increase_queue_count().             *)
(***************************************************************************)
C28_LaterMessagesForwarded ==
  [][/\ NoneDedicated(muxer') =>
          \A f \in Streams :
            FlushedMessages(muxer', f) = q_calls'.filters[f].msgs
     /\ GrowsByIncreaseOnly]_vars

\* The part of C28 about the queue count.
C28_QueueCountGrowsByIncreaseOnly == [][GrowsByIncreaseOnly]_vars

\* The events Stream s has put on its output, in order.
RepliesTo(M, s) ==
  LET ToS(r) == r.stream = s
  IN  SelectSeq(M.reply_log, ToS)

\* Every reply message on the output of Stream s is whole as far as it has
\* come: a Data or MessageEnd follows the MessageStart or a Data of its
\* message, and a MessageStart begins a new message.
WholeReplies(M, s) ==
  LET out == RepliesTo(M, s)
  IN  \A i \in 1 .. Len(out) :
        /\ out[i].evt.kind \in {"Data", "MessageEnd"} =>
             /\ i > 1
             /\ out[i - 1].evt.kind \in {"MessageStart", "Data"}
        /\ out[i].evt.kind = "MessageStart" =>
             i = 1 \/ out[i - 1].evt.kind = "MessageEnd"

\* What the step has added to the outputs of the Streams.
NewReplies ==
  SubSeq(muxer'.reply_log, Len(muxer.reply_log) + 1, Len(muxer'.reply_log))

\* The rule of the MessageEnd branch of on_reply, for a step in which the
\* session has replied with a MessageEnd.
ReplyMessageEndRule ==
  IF muxer.m_streams # <<>> /\ muxer.streams[Head(muxer.m_streams)].m_started
    THEN LET s == Head(muxer.m_streams)
             k == muxer.streams[s].m_queued_count
         IN  /\ NewReplies = <<[stream |-> s, evt |-> q_last'.evt]>>
             /\ muxer'.streams[s].m_queued_count = k - 1
             /\ IF k = 1
                  THEN /\ muxer'.m_streams = Tail(muxer.m_streams)
                       /\ muxer'.streams[s].refs = muxer.streams[s].refs - 1
                  ELSE /\ muxer'.m_streams = muxer.m_streams
                       /\ muxer'.streams[s].refs = muxer.streams[s].refs
                       /\ ~muxer'.streams[s].m_started
    ELSE muxer' = muxer

(***************************************************************************)
(* C29: the head Stream, whose queued_count is k, receives k whole reply   *)
(* messages, each from its MessageStart to its MessageEnd, and is removed  *)
(* and released at the k-th MessageEnd and not before; between two replies *)
(* its started flag is clear; a reply MessageEnd that finds the head not   *)
(* started changes nothing.                                                *)
(***************************************************************************)
C29_HeadGetsWholeReplies ==
  [][~muxer'.m_dedicated =>
       /\ (q_op' = "on_reply" /\ q_last'.evt.kind = "MessageEnd")
            => ReplyMessageEndRule
       /\ \A s \in Streams : WholeReplies(muxer', s)]_vars

\* The part of C29 about one MessageEnd.
C29_MessageEndRule ==
  [][(~muxer'.m_dedicated /\ q_op' = "on_reply"
        /\ q_last'.evt.kind = "MessageEnd")
       => ReplyMessageEndRule]_vars

\* C29 for the Streams that are in the queue for the first time.
C29_WholeRepliesToFirstMessage ==
  ~muxer.m_dedicated =>
    \A s \in Streams :
      FlushedMessages(muxer, s) <= 1 => WholeReplies(muxer, s)

\* A reply MessageStart has been forwarded to Stream s and the message it
\* begins has not ended.
ReplyBegun(M, s) ==
  LET out == RepliesTo(M, s)
  IN  /\ out # <<>>
      /\ out[Len(out)].evt.kind \in {"MessageStart", "Data"}

\* What the Streams of the queue list are to receive at a StreamEnd of the
\* session.
RECURSIVE StreamEndsFor(_, _)
StreamEndsFor(list, evt) ==
  IF list = <<>>
    THEN <<>>
    ELSE LET s == Head(list)
         IN  (IF ReplyBegun(muxer, s)
                THEN <<>>
                ELSE <<[stream |-> s, evt |-> MessageStart_make]>>)
             \o <<[stream |-> s, evt |-> evt]>>
             \o StreamEndsFor(Tail(list), evt)

\* What C30 says of a step in which the session has replied with StreamEnd;
\* Q is the set of queued Streams it is said of.
StreamEndRule(Q) ==
  /\ \A s \in Q :
       /\ RepliesTo(muxer', s)
            = RepliesTo(muxer, s) \o StreamEndsFor(<<s>>, q_last'.evt)
       /\ muxer'.streams[s].refs = muxer.streams[s].refs - 1
  /\ muxer'.m_streams = <<>>
  /\ muxer'.m_is_closed

QueuedStreams ==
  {muxer.m_streams[i] : i \in 1 .. Len(muxer.m_streams)}

(***************************************************************************)
(* C30: when the session replies with a StreamEnd and is not dedicated,    *)
(* every Stream in the queue receives one StreamEnd, after a MessageStart  *)
(* made by the muxer exactly when no reply MessageStart had been forwarded *)
(* to it for a reply of its own still to end; each is released, the queue  *)
(* is empty afterwards and the session is marked closed.                   *)
(***************************************************************************)
C30_StreamEndToEveryQueuedStream ==
  [][(~muxer.m_dedicated /\ q_op' = "on_reply"
        /\ q_last'.evt.kind = "StreamEnd")
       => StreamEndRule(QueuedStreams)]_vars

\* C30 for the Streams that are in the queue for the first time.
C30_StreamEndToFirstTimeQueued ==
  [][(~muxer.m_dedicated /\ q_op' = "on_reply"
        /\ q_last'.evt.kind = "StreamEnd")
       => StreamEndRule({s \in QueuedStreams :
                           FlushedMessages(muxer, s) <= 1})]_vars

(***************************************************************************)
(* C31  A dedicated QueueMuxer                                             *)
(***************************************************************************)

\* A reply to a dedicated QueueMuxer goes to the head Stream and to no
\* other, the head is marked dedicated and the queue stays as it is.
DedicatedReplyRule ==
  (q_op' = "on_reply" /\ muxer.m_dedicated) =>
    /\ muxer'.m_streams = muxer.m_streams
    /\ muxer'.m_dedicated
    /\ IF muxer.m_streams = <<>>
         THEN muxer'.reply_log = muxer.reply_log
         ELSE LET s == QueueMuxer_head(muxer)
              IN  /\ muxer'.streams[s].m_dedicated
                  /\ muxer'.reply_log =
                       IF muxer.streams[s].chained
                         THEN Append(muxer.reply_log,
                                     [stream |-> s, evt |-> q_last'.evt])
                         ELSE muxer.reply_log

\* An upstream event of a Stream marked dedicated goes to the session as it
\* is, and nothing is buffered or enqueued.
DedicatedStreamRule ==
  (/\ q_op' = "process"
   /\ muxer.filters[q_last'.stream].m_stream
   /\ muxer.streams[q_last'.stream].m_dedicated) =>
    /\ muxer'.session_input = Append(muxer.session_input, q_last'.evt)
    /\ muxer'.streams[q_last'.stream].m_buffer =
         muxer.streams[q_last'.stream].m_buffer
    /\ muxer'.streams[q_last'.stream].m_start =
         muxer.streams[q_last'.stream].m_start
    /\ muxer'.m_streams = muxer.m_streams

\* The reset of the QueueMuxer, run when its session is unlinked, empties
\* the queue and clears the dedicated flag.
QueueResetRule ==
  q_op' = "unlink" => (muxer'.m_streams = <<>> /\ ~muxer'.m_dedicated)

\* C31: once a QueueMuxer is dedicated, every reply event of every type is
\* forwarded to the head Stream only and no reply dequeues the head; a
\* Stream marked dedicated passes every upstream event straight to the
\* session without buffering; QueueMuxer::reset clears the dedicated flag
\* and empties the queue.
C31_DedicatedUntilReset ==
  [][DedicatedReplyRule /\ DedicatedStreamRule /\ QueueResetRule]_vars

\* A dedicated session is unlinked after its head Stream got a whole reply
\* and stayed queued.
C31_Witness ==
  /\ q_op = "unlink"
  /\ muxer.m_streams = <<>> /\ ~muxer.m_dedicated
  /\ \E s \in Streams :
       /\ muxer.streams[s].m_dedicated /\ muxer.streams[s].refs = 0
       /\ \E i \in 1 .. Len(muxer.reply_log) :
            /\ muxer.reply_log[i].stream = s
            /\ muxer.reply_log[i].evt.kind = "MessageEnd"

(***************************************************************************)
(* C32  isOneWay                                                           *)
(***************************************************************************)

\* Stream s is in the reply queue.
Queued(M, s) == \E i \in 1 .. Len(M.m_streams) : M.m_streams[i] = s

\* Stream s has flushed a message to the session.
Flushed(M, s) == M.streams[s].refs > 0 /\ M.streams[s].m_queued_count > 0

\* A Stream marked one_way is not in the reply queue and has got no reply.
OneWayGetsNoReply ==
  \A s \in Streams :
    (muxer.streams[s].refs > 0 /\ muxer.streams[s].m_one_way) =>
      /\ ~Queued(muxer, s)
      /\ RepliesTo(muxer, s) = <<>>

\* C32: a Stream whose first MessageStart makes isOneWay return true is
\* marked one_way before its message is flushed, whether or not the session
\* was pending when the MessageStart arrived; such a Stream is never in the
\* reply queue and never receives a reply.
C32_OneWayWhateverSessionState ==
  /\ \A f \in Streams :
       (q_calls.filters[f].ret /\ Flushed(muxer, f)) =>
         muxer.streams[f].m_one_way
  /\ OneWayGetsNoReply

\* The first MessageStart of a filter whose session is not pending marks
\* the Stream one_way when isOneWay returns true, before anything is
\* flushed.
C32_OneWayWhenNotPending ==
  [][(/\ q_op' = "process"
      /\ q_last'.evt.kind = "MessageStart"
      /\ ~muxer.filters[q_last'.stream].m_started
      /\ ~muxer.m_is_pending
      /\ q_calls'.filters[q_last'.stream].ret) =>
       /\ muxer'.streams[q_last'.stream].m_one_way
       /\ ~Flushed(muxer', q_last'.stream)]_vars

\* Marked Streams stay out of the queue and without a reply in every state.
C32_OneWayNeverQueued == OneWayGetsNoReply

(***************************************************************************)
(* C37  An upstream StreamEnd does not end the session                     *)
(***************************************************************************)

\* The StreamEnd events in input.
StreamEndsIn(input) == SelectSeq(input, LAMBDA e : e.kind = "StreamEnd")

\* A StreamEnd given to a filter whose Stream is not dedicated adds nothing
\* to the input of the session, or the filter's whole message, ended by a
\* MessageEnd.
UpstreamStreamEndRule ==
  (/\ q_op' = "process"
   /\ q_last'.evt.kind = "StreamEnd"
   /\ ~muxer.streams[q_last'.stream].m_dedicated) =>
    /\ NewInput = <<>> \/ WholeMessageOf(NewInput, q_last'.stream)
    /\ StreamEndsIn(NewInput) = <<>>

\* While no Stream is dedicated, the session is given a StreamEnd by its
\* unlink only.
SessionStreamEndRule ==
  (NoneDedicated(muxer) /\ StreamEndsIn(NewInput) # <<>>) =>
    /\ q_op' = "unlink"
    /\ NewInput = <<[kind |-> "StreamEnd", src |-> 0, bytes |-> <<>>]>>

\* C37: in non-dedicated mode an upstream StreamEnd on a QueueMuxer Stream
\* is never forwarded to the session: it completes the pending message as a
\* MessageEnd or produces nothing; the session's pipeline receives a
\* StreamEnd only when the session is unlinked.
C37_UpstreamEndStaysUpstream ==
  [][UpstreamStreamEndRule /\ SessionStreamEndRule]_vars

\* A filter has ended its stream with an open message, which the session
\* got with a MessageEnd; the other filter still has its Stream.
C37_Witness ==
  /\ q_op = "process"
  /\ q_last.evt.kind = "StreamEnd"
  /\ NoneDedicated(muxer)
  /\ muxer.session_input # <<>>
  /\ muxer.session_input[Len(muxer.session_input)].kind = "MessageEnd"
  /\ StreamEndsIn(muxer.session_input) = <<>>
  /\ muxer.streams[q_last.stream].m_queued_count = 1
  /\ muxer.m_pipeline
  /\ \E f \in Streams : f # q_last.stream /\ muxer.filters[f].m_stream

(***************************************************************************)
(* C38  A Stream whose filter is reset while its reply is awaited          *)
(***************************************************************************)

\* Stream s is queued for a reply and its filter has been reset: it is
\* unchained and only the queue holds it.
Orphan(M, s) == Queued(M, s) /\ ~M.streams[s].chained

\* A reset of a filter leaves the queue as it is, and a queued Stream
\* lives on, unchained.
ResetKeepsPlace ==
  q_op' = "reset" =>
    /\ muxer'.m_streams = muxer.m_streams
    /\ Queued(muxer, q_last'.stream) =>
         /\ Orphan(muxer', q_last'.stream)
         /\ muxer'.streams[q_last'.stream].refs = 1
         /\ muxer'.streams[q_last'.stream].m_queued_count =
              muxer.streams[q_last'.stream].m_queued_count

\* A reply event other than StreamEnd goes to the head Stream, or to no
\* Stream at all when the head is an orphan; the Streams behind the head
\* get nothing.
ReplyGoesToHead ==
  (/\ q_op' = "on_reply" /\ ~muxer.m_dedicated
   /\ q_last'.evt.kind # "StreamEnd") =>
    /\ \A i \in 1 .. Len(NewReplies) :
         /\ muxer.m_streams # <<>>
         /\ NewReplies[i].stream = QueueMuxer_head(muxer)
         /\ NewReplies[i].evt = q_last'.evt
    /\ Len(NewReplies) <= 1
    /\ (muxer.m_streams # <<>> /\ Orphan(muxer, QueueMuxer_head(muxer)))
         => NewReplies = <<>>

\* The reply of an orphan is consumed as that of any head: its MessageEnd
\* takes the orphan out of the queue, and the Stream behind it becomes the
\* head.
OrphanConsumesReply ==
  (/\ q_op' = "on_reply" /\ ~muxer.m_dedicated
   /\ q_last'.evt.kind = "MessageEnd"
   /\ muxer.m_streams # <<>>
   /\ Orphan(muxer, QueueMuxer_head(muxer))
   /\ muxer.streams[QueueMuxer_head(muxer)].m_started
   /\ muxer.streams[QueueMuxer_head(muxer)].m_queued_count = 1) =>
    /\ muxer'.m_streams = Tail(muxer.m_streams)
    /\ muxer'.streams[QueueMuxer_head(muxer)].refs = 0

\* C38: a Stream whose filter is reset after its request was flushed and
\* before its reply arrived keeps its place in the queue until its reply is
\* consumed; that reply is delivered to no other Stream, and the Streams
\* enqueued later receive their own replies.
C38_OrphanKeepsItsPlace ==
  [][ResetKeepsPlace /\ ReplyGoesToHead /\ OrphanConsumesReply]_vars

\* The filter of Stream 1 was reset while Stream 1 was queued ahead of
\* Stream 2; the first reply was consumed by Stream 1, which is gone, and
\* the second reply has reached Stream 2 whole.
C38_Witness ==
  /\ q_calls.resets = 1
  /\ ~muxer.filters[1].m_stream
  /\ muxer.streams[1].m_queued_count = 1 /\ muxer.streams[1].refs = 0
  /\ RepliesTo(muxer, 1) = <<>>
  /\ muxer.session_input # <<>> /\ muxer.session_input[1].src = 1
  /\ muxer.m_streams = <<>>
  /\ ~muxer.m_is_closed /\ ~muxer.m_dedicated
  /\ Len(RepliesTo(muxer, 2)) >= 2
  /\ RepliesTo(muxer, 2)[1].evt.kind = "MessageStart"
  /\ RepliesTo(muxer, 2)[Len(RepliesTo(muxer, 2))].evt.kind = "MessageEnd"
  /\ q_calls.replies = 4

(***************************************************************************)
(* C33  The acceptor follows the layout                                    *)
(***************************************************************************)

\* The acceptor is open exactly when a layout is bound.
OpenIffBound(L) == L.acceptor_open <=> L.m_pipeline_layout # NoLayout

\* C33: pipeline_layout starts the acceptor when a layout is bound to an
\* unbound listener and closes it when the layout is cleared, so that the
\* acceptor is open if and only if a layout is bound; when starting fails
\* the error is thrown on, the acceptor is closed and the listener stays
\* unbound.
C33_AcceptorOpenIffBound ==
  [][/\ OpenIffBound(listener')
     /\ l_op' = "pipeline_layout throws" =>
          /\ listener.m_pipeline_layout = NoLayout
          /\ listener'.m_pipeline_layout = NoLayout
          /\ ~listener'.acceptor_open
          /\ listener'.accepting = 0
     /\ l_op' = "pipeline_layout" =>
          /\ listener'.m_pipeline_layout # listener.m_pipeline_layout
          /\ listener'.acceptor_open =
               (listener'.m_pipeline_layout # NoLayout)]_vars

\* A listener that was bound and unbound, with an inbound still alive, has
\* failed to start again.
C33_Witness ==
  /\ l_op = "pipeline_layout throws"
  /\ listener.m_inbounds > 0
  /\ listener.m_pipeline_layout = NoLayout
  /\ ~listener.acceptor_open

(***************************************************************************)
(* C34  max_connections = 0                                                *)
(***************************************************************************)

\* C34: the admission limit applies only when max_connections > 0: a bound
\* listener with max_connections = 0 is never paused and has an accept
\* outstanding, after start, set_options, open and close of an inbound
\* alike.
C34_ZeroMeansNoLimit ==
  (/\ l_op \in {"pipeline_layout", "set_options", "open", "close"}
   /\ listener.m_pipeline_layout # NoLayout
   /\ listener.max_connections = 0)
    => (~listener.m_paused /\ listener.accepting > 0)

\* Listener::open alone treats 0 as no limit: with max_connections = 0 it
\* never pauses and starts the next accept.
C34_OpenTreatsZeroAsNoLimit ==
  [][(l_op' = "open" /\ listener.max_connections = 0) =>
       (listener'.m_paused = listener.m_paused
        /\ (listener.acceptor_open => listener'.accepting > 0))]_vars

(***************************************************************************)
(* C40  One accept at a time                                               *)
(***************************************************************************)

\* C40: a Listener never has more than one accept outstanding, and its
\* paused flag is true only while no accept is outstanding, whatever the
\* sequence of start, open, close, pause, resume, set_options and layout
\* bind and unbind.
C40_OneAcceptAndPausedMeansNone ==
  /\ listener.accepting <= 1
  /\ listener.m_paused => listener.accepting = 0

\* As long as the paused flag is false whenever a layout is bound to an
\* unbound listener, the next step keeps to one accept and to no accept
\* while paused.
C40_HoldsUnlessBoundWhilePaused ==
  [][(/\ listener.accepting <= 1
      /\ listener.m_paused => listener.accepting = 0
      /\ ~(l_op' = "pipeline_layout"
            /\ listener.m_pipeline_layout = NoLayout
            /\ listener.m_paused)) =>
       (/\ listener'.accepting <= 1
        /\ listener'.m_paused => listener'.accepting = 0)]_vars

(***************************************************************************)
(* C35  Pooled pipelines are reset                                         *)
(***************************************************************************)

\* Pipeline p is as reset() leaves it.
IsReset(Y, p) ==
  /\ Y.pipelines[p].m_context = NoContext
  /\ ~Y.pipelines[p].chained
  /\ \A t \in FilterTemplates : ~Y.pipelines[p].m_filters[t].used

\* C35: every pipeline on the free list of a layout has been reset: its
\* context is null, its output is unchained and each of its filters was
\* reset after its last use; alloc() returns the pipeline with the new
\* context installed; the filters of the layout are cloned only when a
\* Pipeline is constructed, once each.
C35_FreeListIsReset ==
  /\ \A i \in 1 .. Len(FreeList(pipeline_def)) :
       IsReset(pipeline_def, FreeList(pipeline_def)[i])
  /\ y_op = "alloc" =>
       pipeline_def.pipelines[
         pipeline_def.m_pipelines[Len(pipeline_def.m_pipelines)]
       ].m_context \in Contexts
  /\ \A t \in FilterTemplates :
       pipeline_def.clones[t] = pipeline_def.m_allocated

\* Of two pipelines that were live and recycled, the one recycled last has
\* been taken from the free list and is live with its context; the other is
\* on the free list.
C35_Witness ==
  /\ y_op = "alloc"
  /\ pipeline_def.m_allocated = 2
  /\ Len(FreeList(pipeline_def)) = 1
  /\ Len(pipeline_def.m_pipelines) = 1
  /\ pipeline_def.refs = 1
  /\ pipeline_def.m_pipelines[1] = 2

(***************************************************************************)
(* C36  Buffer::reset                                                      *)
(***************************************************************************)

\* C36: after Buffer::reset the filter is in its initial state: no file is
\* open for writing or reading, no filename is resolved and the buffer in
\* memory is empty, so that the next stream counts its bytes against the
\* threshold from zero.
C36_ResetToInitialState ==
  b_op = "reset" =>
    /\ ~file_buffer.m_file_w /\ ~file_buffer.m_file_r
    /\ ~file_buffer.m_resolved_filename
    /\ file_buffer.m_buffer = 0

\* After Buffer::reset no file is open and no filename is resolved.
C36_ResetClosesFiles ==
  b_op = "reset" =>
    /\ ~file_buffer.m_file_w /\ ~file_buffer.m_file_r
    /\ ~file_buffer.m_resolved_filename

(***************************************************************************)
(* C39  One replay at a time, none after reset                             *)
(***************************************************************************)

\* C39: at most one replay is scheduled at any time, a StreamEnd(REPLAY)
\* that arrives while one is scheduled is absorbed into it, and after
\* Replay::reset a replay scheduled before never runs: the capture buffer
\* is empty, and no sub-pipeline is made and no recorded event is emitted
\* again until a new event is processed.
C39_OneReplayNoneAfterReset ==
  [][/\ replay'.timer <= 1
     /\ replay'.m_replay_scheduled <=> replay'.timer = 1
     /\ (r_op' = "on_event" /\ replay.m_replay_scheduled) =>
          (replay'.timer = replay.timer /\ replay'.made = replay.made)
     /\ r_op' = "reset" =>
          /\ replay'.m_buffer = <<>>
          /\ replay'.m_pipeline = NoPipeline
          /\ replay'.timer = 0
     /\ (r_op = "reset" /\ r_op' # "process") =>
          /\ replay'.made = replay.made
          /\ replay'.sub_input = <<>>
          /\ replay'.m_buffer = <<>>]_vars

\* A replay that was scheduled has been cancelled by a reset before its
\* tick.
C39_Witness ==
  /\ r_op = "reset"
  /\ replay.cancelled = 1
  /\ replay.made = 1
  /\ replay.released = {1}
  /\ ~replay.m_replay_scheduled

====
